---- MODULE Spec2Model ----
(***************************************************************************)
(* Domain-ownership verification: the DKIM header engine                   *)
(* (services/server/dkim.ts), the session and commitment stores            *)
(* (services/store), and the API routes that bind a verified signing       *)
(* domain to a session (verify-dkim-headers, session, register-zk).        *)
(*                                                                         *)
(* Strings are sequences of one-character strings, so that lower-casing,   *)
(* trimming, splitting and substring search are computed as the code       *)
(* computes them.  Indices are 1-based; 0 stands for JavaScript's -1.      *)
(***************************************************************************)
EXTENDS Integers, Sequences, FiniteSets, TLC

\* ------------------------------------------------------------------------
\* JavaScript string primitives
\* ------------------------------------------------------------------------

UpperChars == <<"A","B","C","D","E","F","G","H","I","J","K","L","M",
                "N","O","P","Q","R","S","T","U","V","W","X","Y","Z">>

LowerChars == <<"a","b","c","d","e","f","g","h","i","j","k","l","m",
                "n","o","p","q","r","s","t","u","v","w","x","y","z">>

Digits == {"0","1","2","3","4","5","6","7","8","9"}

\* \s of a JavaScript regular expression, and what String.prototype.trim strips
WhiteSpace == {" ", "\t", "\r", "\n"}

\* [ \t]
WSP == {" ", "\t"}

CRLF == <<"\r", "\n">>

\* const x = e: the value of e under the name of F's parameter
With(e, F(_)) == F(e)

\* \w of a JavaScript regular expression
IsWordChar(c) ==
    \/ \E i \in 1..26 : UpperChars[i] = c \/ LowerChars[i] = c
    \/ c \in Digits
    \/ c = "_"

toLowerChar(c) ==
    IF \E i \in 1..26 : UpperChars[i] = c
    THEN LowerChars[CHOOSE i \in 1..26 : UpperChars[i] = c]
    ELSE c

toLowerCase(s) == [i \in 1..Len(s) |-> toLowerChar(s[i])]

\* s.slice(from) with a 1-based first index
SliceFrom(s, from) == SubSeq(s, from, Len(s))

\* s.indexOf(c): the first index of character c, 0 when absent
IndexOf(s, c) ==
    IF \E i \in 1..Len(s) : s[i] = c
    THEN CHOOSE i \in 1..Len(s) : s[i] = c /\ \A j \in 1..(i - 1) : s[j] # c
    ELSE 0

startsWith(s, p) == Len(s) >= Len(p) /\ SubSeq(s, 1, Len(p)) = p

\* s.includes(sub)
includes(s, sub) ==
    \E i \in 0..(Len(s) - Len(sub)) : SubSeq(s, i + 1, i + Len(sub)) = sub

\* list.includes(x) on an array
arrayIncludes(list, x) == \E i \in 1..Len(list) : list[i] = x

trimStart(s) ==
    IF \A i \in 1..Len(s) : s[i] \in WhiteSpace
    THEN << >>
    ELSE SliceFrom(s, CHOOSE i \in 1..Len(s) :
                        s[i] \notin WhiteSpace /\ \A j \in 1..(i - 1) : s[j] \in WhiteSpace)

trimEnd(s) ==
    IF \A i \in 1..Len(s) : s[i] \in WhiteSpace
    THEN << >>
    ELSE SubSeq(s, 1, CHOOSE i \in 1..Len(s) :
                        s[i] \notin WhiteSpace /\ \A j \in (i + 1)..Len(s) : s[j] \in WhiteSpace)

trim(s) == trimEnd(trimStart(s))

\* s.split(c) for a one-character separator
RECURSIVE split(_, _)
split(s, c) ==
    LET i == IndexOf(s, c)
    IN  IF i = 0 THEN <<s>>
        ELSE <<SubSeq(s, 1, i - 1)>> \o split(SliceFrom(s, i + 1), c)

\* s.split(/\r?\n/): a piece that a line feed ends loses one carriage return
\* before that line feed
stripCR(line) ==
    IF Len(line) > 0 /\ line[Len(line)] = "\r" THEN SubSeq(line, 1, Len(line) - 1) ELSE line

splitLines(s) ==
    With(split(s, "\n"), LAMBDA pieces :
        [i \in 1..Len(pieces) |-> IF i < Len(pieces) THEN stripCR(pieces[i]) ELSE pieces[i]])

\* s.replace(/[ \t]+/g, " "): of every run of spaces and tabs one space stays
collapseWSP(s) ==
    With(SelectSeq([i \in 1..Len(s) |-> i],
                   LAMBDA i : s[i] \notin WSP \/ i = 1 \/ s[i - 1] \notin WSP),
         LAMBDA keep : [k \in 1..Len(keep) |-> IF s[keep[k]] \in WSP THEN " " ELSE s[keep[k]]])

\* s.replace(/\s+/g, "")
stripWhiteSpace(s) == SelectSeq(s, LAMBDA c : c \notin WhiteSpace)

\* s.replace(/\r?\n[ \t]+/g, " "): every fold (a line break and the spaces and
\* tabs after it) becomes one space
isFoldLF(s, i) == s[i] = "\n" /\ i < Len(s) /\ s[i + 1] \in WSP

inFold(s, j) ==
    \/ s[j] = "\r" /\ j < Len(s) /\ isFoldLF(s, j + 1)
    \/ s[j] \in WSP /\ \E i \in 1..(j - 1) :
          isFoldLF(s, i) /\ \A k \in (i + 1)..j : s[k] \in WSP

unfold(s) ==
    With(SelectSeq([i \in 1..Len(s) |-> i], LAMBDA i : ~inFold(s, i)),
         LAMBDA keep : [k \in 1..Len(keep) |-> IF isFoldLF(s, keep[k]) THEN " " ELSE s[keep[k]]])

\* parts.join(sep) for an array of strings
RECURSIVE join(_, _)
join(parts, sep) ==
    IF parts = << >> THEN << >>
    ELSE IF Len(parts) = 1 THEN parts[1]
         ELSE parts[1] \o sep \o join(Tail(parts), sep)


\* ------------------------------------------------------------------------
\* services/server/dkim.ts: the header engine
\* ------------------------------------------------------------------------

\* String literals of dkim.ts
Str_subject == <<"s","u","b","j","e","c","t">>

Str_dkim_signature == <<"d","k","i","m","-","s","i","g","n","a","t","u","r","e">>

Str_rsa_sha256 == <<"r","s","a","-","s","h","a","2","5","6">>

Str_relaxed_relaxed == <<"r","e","l","a","x","e","d","/","r","e","l","a","x","e","d">>

\* null / undefined where the code holds an object
Null == [null |-> TRUE]

\* /^[ \t]/.test(line)
isContinuation(line) == Len(line) > 0 /\ line[1] \in WSP

\* /^dkim-signature:/i.test(b)
isDkimBlock(b) == startsWith(toLowerCase(b), Str_dkim_signature \o <<":">>)

\* One iteration of the loop of parseHeaders over a line; st is
\* [list, hasCurrent, rawBlocks, block, stop]
parseHeadersLine(st, line) ==
    IF st.stop THEN st
    ELSE IF isContinuation(line)
    THEN [st EXCEPT
            !.list = IF st.hasCurrent
                     THEN [st.list EXCEPT ![Len(st.list)].value = @ \o trim(line)]
                     ELSE st.list,
            !.block = @ \o CRLF \o line]
    ELSE IF trim(line) = << >>
    THEN [st EXCEPT !.stop = TRUE]
    ELSE LET pushed == IF st.hasCurrent THEN Append(st.rawBlocks, st.block) ELSE st.rawBlocks
             idx    == IndexOf(line, ":")
         IN  IF idx = 0
             THEN [st EXCEPT !.rawBlocks = pushed]
             ELSE [st EXCEPT
                     !.rawBlocks = pushed,
                     !.list = Append(st.list, [name  |-> SubSeq(line, 1, idx - 1),
                                               value |-> trim(SliceFrom(line, idx + 1))]),
                     !.hasCurrent = TRUE,
                     !.block = line]

RECURSIVE parseHeadersLoop(_, _)
parseHeadersLoop(st, lines) ==
    IF lines = << >> THEN st
    ELSE parseHeadersLoop(parseHeadersLine(st, Head(lines)), Tail(lines))

\* parseHeaders(raw): the header list in order and the raw block of the first
\* DKIM-Signature header ("" when there is none)
parseHeaders(raw) ==
    With(parseHeadersLoop([list |-> << >>, hasCurrent |-> FALSE, rawBlocks |-> << >>,
                           block |-> << >>, stop |-> FALSE],
                          splitLines(raw)),
         LAMBDA st :
    With(IF st.block # << >> THEN Append(st.rawBlocks, st.block) ELSE st.rawBlocks,
         LAMBDA rawBlocks :
    With(SelectSeq(rawBlocks, isDkimBlock),
         LAMBDA dk :
            [list |-> st.list,
             rawDkim |-> IF dk = << >> THEN << >> ELSE dk[1],
             rawBlocks |-> rawBlocks])))

\* getHeaderValue with the loop running from the first header: the leftmost
\* occurrence is returned
getHeaderValueFirst(list, name) ==
    LET n == toLowerCase(name)
        hits == {i \in 1..Len(list) : toLowerCase(list[i].name) = n}
    IN  IF hits = {} THEN << >>
        ELSE list[CHOOSE i \in hits : \A j \in hits : i <= j].value

\* getHeaderValue(list, name): the value of the last header of that name,
\* "" standing for null
getHeaderValue(list, name) ==
    LET n == toLowerCase(name)
        hits == {i \in 1..Len(list) : toLowerCase(list[i].name) = n}
    IN  IF hits = {} THEN << >>
        ELSE list[CHOOSE i \in hits : \A j \in hits : j <= i].value

\* One "k=v" piece of a DKIM-Signature value, as the [k, v] entry
tagEntry(kv) ==
    LET idx == IndexOf(kv, "=")
    IN  IF idx = 0 THEN [k |-> toLowerCase(kv), v |-> << >>]
        ELSE [k |-> toLowerCase(trim(SubSeq(kv, 1, idx - 1))),
              v |-> trim(SliceFrom(kv, idx + 1))]

\* tags[k] of Object.fromEntries(entries): the last entry of key k wins;
\* "" stands for undefined (the code only tests tags[k] for truthiness)
tagValue(entries, k) ==
    LET hits == {i \in 1..Len(entries) : entries[i].k = k}
    IN  IF hits = {} THEN << >>
        ELSE entries[CHOOSE i \in hits : \A j \in hits : j <= i].v

dkimTagEntries(raw) ==
    With(split(SliceFrom(raw, IndexOf(raw, ":") + 1), ";"),
         LAMBDA pieces :
    With(SelectSeq([i \in 1..Len(pieces) |-> trim(pieces[i])], LAMBDA p : p # << >>),
         LAMBDA kept : [i \in 1..Len(kept) |-> tagEntry(kept[i])]))

\* parseDkimSignature(raw): the tags of a DKIM-Signature block, Null when the
\* block is empty, is no DKIM-Signature header, or lacks d=, s=, h= or b=
headerNames(hv) ==
    With(split(hv, ":"),
         LAMBDA hs : SelectSeq([i \in 1..Len(hs) |-> toLowerCase(trim(hs[i]))],
                               LAMBDA x : x # << >>))

\* The returned object for the tag values a, d, s, the names of h, b and c
dkimObject(a, d, s, h, b, c) ==
    IF d = << >> \/ s = << >> \/ h = << >> \/ b = << >> THEN Null
    ELSE [a |-> IF a = << >> THEN Str_rsa_sha256 ELSE a,
          d |-> d, s |-> s, h |-> h, b |-> b,
          c |-> IF c = << >> THEN Str_relaxed_relaxed ELSE c]

dkimOfTags(tags) ==
    dkimObject(tagValue(tags, <<"a">>), tagValue(tags, <<"d">>), tagValue(tags, <<"s">>),
               headerNames(tagValue(tags, <<"h">>)),
               stripWhiteSpace(tagValue(tags, <<"b">>)), tagValue(tags, <<"c">>))

parseDkimSignature(raw) ==
    IF raw = << >> THEN Null
    ELSE IF ~startsWith(toLowerCase(raw), Str_dkim_signature \o <<":">>) THEN Null
    ELSE dkimOfTags(dkimTagEntries(raw))

\* relaxedHeader(h) for a header object {name, value} and for a string, which
\* is carried as [str |-> s]
relaxedHeader(h) ==
    IF "str" \in DOMAIN h
    THEN LET idx == IndexOf(h.str, ":")
         IN  toLowerCase(SubSeq(h.str, 1, idx - 1)) \o <<":">>
                \o trim(collapseWSP(SliceFrom(h.str, idx + 1)))
    ELSE toLowerCase(h.name) \o <<":">> \o trim(collapseWSP(h.value))

\* indicesByName.get(n): the indices of the headers named n, ascending
indicesByName(list, n) ==
    SelectSeq([i \in 1..Len(list) |-> i], LAMBDA i : toLowerCase(list[i].name) = n)

\* The loop with pointers that start at the first index of each name and
\* move right: the leftmost unused occurrence is selected
RECURSIVE selectLoopLeftmost(_, _, _)
selectLoopLeftmost(list, hList, used) ==
    IF hList = << >> THEN << >>
    ELSE With(toLowerCase(Head(hList)), LAMBDA n :
         With(indicesByName(list, n), LAMBDA arr :
         With(Len(SelectSeq(used, LAMBDA u : u = n)) + 1, LAMBDA p :
            IF arr = << >> \/ p > Len(arr)
            THEN selectLoopLeftmost(list, Tail(hList), used)
            ELSE <<arr[p]>> \o selectLoopLeftmost(list, Tail(hList), Append(used, n)))))

\* The loop with pointers that are never moved: every repeat of a name
\* selects its last occurrence again
RECURSIVE selectLoopReusing(_, _, _)
selectLoopReusing(list, hList, used) ==
    IF hList = << >> THEN << >>
    ELSE With(toLowerCase(Head(hList)), LAMBDA n :
         With(indicesByName(list, n), LAMBDA arr :
            IF arr = << >>
            THEN selectLoopReusing(list, Tail(hList), used)
            ELSE <<arr[Len(arr)]>> \o selectLoopReusing(list, Tail(hList), used)))

\* The loop of selectSignedHeaders over h=: ptr maps a name to the number of
\* its occurrences not yet used (the code's pointer plus one); the result is
\* the sequence of selected indices into list
RECURSIVE selectLoop(_, _, _)
selectLoop(list, hList, used) ==
    IF hList = << >> THEN << >>
    ELSE With(toLowerCase(Head(hList)), LAMBDA n :
         With(indicesByName(list, n), LAMBDA arr :
         With(Len(arr) - Len(SelectSeq(used, LAMBDA u : u = n)), LAMBDA p :
            IF arr = << >> \/ p < 1
            THEN selectLoop(list, Tail(hList), used)
            ELSE <<arr[p]>> \o selectLoop(list, Tail(hList), Append(used, n)))))

selectSignedIndices(list, hList) == selectLoop(list, hList, << >>)

\* selectSignedHeaders(list, hList): the selected header objects
selectSignedHeaders(list, hList) ==
    With(selectSignedIndices(list, hList), LAMBDA idx : [k \in 1..Len(idx) |-> list[idx[k]]])

\* The first match of /\bb=([^;]+)(;?)/i in s: the index of its "b", 0 if none
findBTag(s) ==
    LET ok(i) == /\ toLowerChar(s[i]) = "b"
                 /\ (i = 1 \/ ~IsWordChar(s[i - 1]))
                 /\ i + 2 <= Len(s)
                 /\ s[i + 1] = "="
                 /\ s[i + 2] # ";"
    IN  IF \E i \in 1..Len(s) : ok(i)
        THEN CHOOSE i \in 1..Len(s) : ok(i) /\ \A j \in 1..(i - 1) : ~ok(j)
        ELSE 0

\* headerValue.replace(/\bb=([^;]+)(;?)/i, "b=$2")
blankB(s) ==
    With(findBTag(s), LAMBDA i :
        IF i = 0 THEN s
        ELSE With(SliceFrom(s, i + 2), LAMBDA rest :
             With(IndexOf(rest, ";"), LAMBDA semi :
                SubSeq(s, 1, i - 1) \o <<"b", "=">>
                    \o (IF semi = 0 THEN << >> ELSE SliceFrom(rest, semi)))))

\* withEmptyB(rawDkim): the DKIM-Signature header with its b= value blanked
withEmptyB(rawDkim) ==
    IF ~startsWith(toLowerCase(rawDkim), Str_dkim_signature \o <<":">>)
    THEN [str |-> rawDkim]
    ELSE [name  |-> Str_dkim_signature,
          value |-> trim(blankB(unfold(SliceFrom(rawDkim, IndexOf(rawDkim, ":") + 1))))]

\* The signed data of verifyHeadersOnly for a parsed message and signature
\* block: the canonicalized selected headers joined by CRLF, a CRLF, and the
\* canonicalized DKIM-Signature header with b= blanked
signedDataOf(list, hList, rawDkim) ==
    With(selectSignedHeaders(list, hList), LAMBDA selected :
        join([k \in 1..Len(selected) |-> relaxedHeader(selected[k])], CRLF)
            \o CRLF \o relaxedHeader(withEmptyB(rawDkim)))


\* ------------------------------------------------------------------------
\* Key lookup and signature check
\* ------------------------------------------------------------------------

\* wrapPem splits the key material into lines of this many characters
PemLineLen == 64

\* base64.match(/.{1,64}/g): the material in lines of at most 64 characters
RECURSIVE chunks(_, _)
chunks(s, n) ==
    IF s = << >> THEN << >>
    ELSE IF Len(s) <= n THEN <<s>>
         ELSE <<SubSeq(s, 1, n)>> \o chunks(SliceFrom(s, n + 1), n)

wrapPem(base64) ==
    <<"-----BEGIN PUBLIC KEY-----", "\n">>
        \o join(chunks(base64, PemLineLen), <<"\n">>)
        \o <<"\n", "-----END PUBLIC KEY-----", "\n">>

\* flat.match(/\bp=([^;\s]+)/): the captured group, "" when nothing matches
matchP(flat) ==
    LET ok(i) == /\ flat[i] = "p"
                 /\ (i = 1 \/ ~IsWordChar(flat[i - 1]))
                 /\ i + 2 <= Len(flat)
                 /\ flat[i + 1] = "="
                 /\ flat[i + 2] \notin (WhiteSpace \cup {";"})
    IN  IF \E i \in 1..Len(flat) : ok(i)
        THEN With(CHOOSE i \in 1..Len(flat) : ok(i) /\ \A j \in 1..(i - 1) : ~ok(j),
                  LAMBDA i :
             With(SliceFrom(flat, i + 2), LAMBDA rest :
             With({k \in 1..Len(rest) : rest[k] \in (WhiteSpace \cup {";"})}, LAMBDA stop :
                IF stop = {} THEN rest
                ELSE SubSeq(rest, 1, (CHOOSE k \in stop : \A l \in stop : k <= l) - 1))))
        ELSE << >>

\* fetchDkimPublicKey(selector, domain), given what dns.resolveTxt answers for
\* <selector>._domainkey.<domain>: answer.throws, or answer.records, an array
\* of TXT records, each an array of strings.  "" stands for null.
fetchDkimPublicKey(answer) ==
    IF answer.throws THEN << >>
    ELSE With(matchP(join([i \in 1..Len(answer.records) |-> join(answer.records[i], << >>)],
                          << >>)),
              LAMBDA p : IF p = << >> THEN << >> ELSE wrapPem(p))

\* `${dkim.s}._domainkey.${dkim.d}`
keyNameOf(selector, domain) ==
    selector \o <<".","_","d","o","m","a","i","n","k","e","y",".">> \o domain

\* The key material a domain publishes (DNS names compare case-insensitively)
keyMaterial(domain) == <<"K", "_">> \o toLowerCase(domain)

\* What dns.resolveTxt can answer for the key of `domain`: a rejection that
\* says there is no such record (ENODATA, ENOTFOUND), a record without p=,
\* the domain's key (split over two strings of one record), a p= that is no
\* key material, or a rejection because the resolver could not be reached or
\* did not answer in time (ETIMEOUT, ESERVFAIL)
TxtNoP == <<"v","=","D","K","I","M","1",";"," ","k","=","r","s","a">>

TxtPrefix == <<"v","=","D","K","I","M","1",";"," ","p","=">>

DnsAnswers(domain) ==
    { [throws |-> TRUE,  records |-> << >>, kind |-> "throws"],
      [throws |-> FALSE, records |-> << <<TxtNoP>> >>, kind |-> "nop"],
      [throws |-> FALSE, records |-> << <<TxtPrefix, keyMaterial(domain)>> >>, kind |-> "key"],
      [throws |-> FALSE, records |-> << <<TxtPrefix \o <<"!","!">> >> >>, kind |-> "badkey"],
      [throws |-> TRUE,  records |-> << >>, kind |-> "timeout"] }

\* The answer of the domain's real zone
DnsKeyAnswer(domain) == CHOOSE a \in DnsAnswers(domain) : a.kind = "key"

\* The material of a PEM that wrapPem made from key material, "" when the PEM
\* holds none (crypto then throws)
pemMaterial(pem) ==
    With(SelectSeq(SubSeq(pem, 3, Len(pem) - 3), LAMBDA c : c # "\n"), LAMBDA mat :
        IF Len(pem) >= 6 /\ Len(mat) >= 2 /\ mat[1] = "K" /\ mat[2] = "_" THEN mat ELSE << >>)


\* ------------------------------------------------------------------------
\* The messages a client can submit: mail signed by the key of its d= domain,
\* as delivered or altered afterwards
\* ------------------------------------------------------------------------

\* "E.C", "m.e.c", "e.co": the domain itself in upper case, a subdomain of
\* it, and a longer name that starts with it
SignDomains == <<<<"E",".","C">>, <<"m",".","e",".","c">>, <<"e",".","c","o">>>>

\* "VERIFY 7F" holds the nonce "7f" in another case; "hello" holds no nonce
Subjects == <<<<"V","E","R","I","F","Y"," ","7","F">>, <<"h","e","l","l","o">>>>

\* h= with and without the Subject header
HLists == <<<<"F","r","o","m"," ",":"," ","S","u","b","j","e","c","t">>, <<"f","r","o","m">>>>

NumBase == Len(SignDomains) * Len(Subjects) * Len(HLists)

BaseIds == 0..(NumBase - 1)

baseDomain(n) == SignDomains[(n % Len(SignDomains)) + 1]

baseSubject(n) == Subjects[((n \div Len(SignDomains)) % Len(Subjects)) + 1]

baseH(n) == HLists[(n \div (Len(SignDomains) * Len(Subjects))) + 1]

\* The b= value of the signature made over base message n
sigToken(n) == <<"S", ToString(n)>>

\* How a delivered message is altered before it is submitted: not at all; a
\* second Subject header holding the nonce is appended; the signature value is
\* replaced; the algorithm tag is replaced; the DKIM-Signature header is
\* removed; a forged DKIM-Signature header that lists Subject in h= and copies
\* d=, s= and b= is put before the real one
Tampers == {"none", "addSubject", "badsig", "algo", "strip", "forge"}

Str_From_line == <<"F","r","o","m",":"," ","u","@","x">>

Str_Subject_colon == <<"S","u","b","j","e","c","t",":"," ">>

Str_spliced_subject == <<"S","u","b","j","e","c","t",":"," ","v","e","r","i","f","y"," ","7","f">>

Str_ed25519 == <<"e","d","2","5","5","1","9","-","s","h","a","2","5","6">>

forgedLine(n) ==
    <<"D","K","I","M","-","S","i","g","n","a","t","u","r","e",":"," ","a","=","r","s","a","-","s","h","a","2","5","6",";"," ","d","=">> \o baseDomain(n)
        \o <<";"," ","s","=","s","1",";"," ","h","=","f","r","o","m",":","s","u","b","j","e","c","t",";"," ","b","=">> \o sigToken(n)

dkimLine(n, t) ==
    <<"D","K","I","M","-","S","i","g","n","a","t","u","r","e",":"," ","a","=">>
        \o (IF t = "algo" THEN Str_ed25519 ELSE <<"R","S","A","-","S","H","A","2","5","6">>)
        \o <<";"," ","d","=">> \o baseDomain(n)
        \o <<";"," ","s","=","s","1",";","\r","\n"," ","h","=">> \o baseH(n)
        \o <<";"," ","b","=">> \o (IF t = "badsig" THEN <<"B","A","D">> ELSE sigToken(n))

\* The header text of base message n after tamper t
MessageText(n, t) ==
    join(<<Str_From_line, Str_Subject_colon \o baseSubject(n)>>
            \o (IF t = "forge" THEN <<forgedLine(n)>> ELSE << >>)
            \o (IF t = "strip" THEN << >> ELSE <<dkimLine(n, t)>>)
            \o (IF t = "addSubject" THEN <<Str_spliced_subject>> ELSE << >>),
         CRLF)

\* The full raw message: headers, a blank line, a body
RawEmail(n, t) == MessageText(n, t) \o CRLF \o CRLF \o <<"h","i">>

\* The inputs drawn for a verification attempt
Inputs ==
    {<<n, t>> : n \in BaseIds, t \in {"none", "addSubject", "badsig"}}
        \cup {<<n, "forge">> : n \in {m \in BaseIds : baseH(m) = HLists[2]}}
        \cup {<<0, "algo">>, <<0, "strip">>}

\* What the signer of base message n signed, and with which key
signedBase(n) ==
    With(parseHeaders(MessageText(n, "none")), LAMBDA hdrs :
        signedDataOf(hdrs.list, parseDkimSignature(hdrs.rawDkim).h, hdrs.rawDkim))

\* verifier.verify(pubKey, Buffer.from(b, "base64")) over data: "throws" for a
\* PEM that holds no key, else whether b is the signature of data under the key
cryptoVerify(pem, data, b) ==
    With(pemMaterial(pem), LAMBDA mat :
        IF mat = << >> THEN "throws"
        ELSE IF \E n \in BaseIds :
                    /\ b = sigToken(n)
                    /\ mat = keyMaterial(baseDomain(n))
                    /\ data = signedBase(n)
             THEN "true"
             ELSE "false")

\* ------------------------------------------------------------------------
\* verifyHeadersOnly and verifyRawEmailWithLibrary
\* ------------------------------------------------------------------------

NoReason == [text |-> "", arg |-> << >>]

Reason(text, arg) == [text |-> text, arg |-> arg]

Fail(text, arg) ==
    [ok |-> FALSE, domain |-> << >>, subject |-> << >>, signedHeaders |-> << >>,
     reason |-> Reason(text, arg)]

\* Whether verifyHeadersOnly reaches its DNS lookup for this text
reachesDns(headersText) ==
    With(parseDkimSignature(parseHeaders(trim(headersText)).rawDkim), LAMBDA dkim :
        dkim # Null /\ toLowerCase(dkim.a) = Str_rsa_sha256)

\* verifyHeadersOnly with the a= tag compared as written
verifyHeadersOnlyCaseSensitive(headersText, answer) ==
    With(parseHeaders(trim(headersText)), LAMBDA headers :
    With(parseDkimSignature(headers.rawDkim), LAMBDA dkim :
        IF dkim = Null THEN Fail("no dkim-signature header", << >>)
        ELSE IF dkim.a # Str_rsa_sha256 THEN Fail("unsupported a=", dkim.a)
        ELSE With(fetchDkimPublicKey(answer), LAMBDA pubKey :
            IF pubKey = << >>
            THEN Fail("dkim public key not found for ", keyNameOf(dkim.s, dkim.d))
            ELSE With(cryptoVerify(pubKey,
                                   signedDataOf(headers.list, dkim.h, headers.rawDkim),
                                   dkim.b),
                      LAMBDA sigOk :
                IF sigOk = "throws" THEN Fail("error: crypto", << >>)
                ELSE IF sigOk = "false" THEN Fail("dkim signature invalid", << >>)
                ELSE [ok |-> TRUE, domain |-> dkim.d,
                      subject |-> getHeaderValue(headers.list, Str_subject),
                      signedHeaders |-> dkim.h, reason |-> NoReason]))))

\* verifyHeadersOnly(headersText), given the answer of the DNS lookup it makes
verifyHeadersOnly(headersText, answer) ==
    With(parseHeaders(trim(headersText)), LAMBDA headers :
    With(parseDkimSignature(headers.rawDkim), LAMBDA dkim :
        IF dkim = Null THEN Fail("no dkim-signature header", << >>)
        ELSE IF toLowerCase(dkim.a) # Str_rsa_sha256 THEN Fail("unsupported a=", dkim.a)
        ELSE With(fetchDkimPublicKey(answer), LAMBDA pubKey :
            IF pubKey = << >>
            THEN Fail("dkim public key not found for ", keyNameOf(dkim.s, dkim.d))
            ELSE With(cryptoVerify(pubKey,
                                   signedDataOf(headers.list, dkim.h, headers.rawDkim),
                                   dkim.b),
                      LAMBDA sigOk :
                IF sigOk = "throws" THEN Fail("error: crypto", << >>)
                ELSE IF sigOk = "false" THEN Fail("dkim signature invalid", << >>)
                ELSE [ok |-> TRUE, domain |-> dkim.d,
                      subject |-> getHeaderValue(headers.list, Str_subject),
                      signedHeaders |-> dkim.h, reason |-> NoReason]))))


\* rawEmail.search(/\r?\n\r?\n/): the index where the first blank line's line
\* break starts, 0 when there is none
at(s, i) == IF i >= 1 /\ i <= Len(s) THEN s[i] ELSE ""

lineBreakLenAt(s, i) ==
    IF at(s, i) = "\r" /\ at(s, i + 1) = "\n" THEN 2
    ELSE IF at(s, i) = "\n" THEN 1 ELSE 0

searchBlankLine(s) ==
    LET ok(i) == lineBreakLenAt(s, i) > 0
                    /\ lineBreakLenAt(s, i + lineBreakLenAt(s, i)) > 0
    IN  IF \E i \in 1..Len(s) : ok(i)
        THEN CHOOSE i \in 1..Len(s) : ok(i) /\ \A j \in 1..(i - 1) : ~ok(j)
        ELSE 0

\* headersText.split(/\r?\n(?=\S)/): the text cut at every line break that a
\* non-blank character follows
RECURSIVE splitBlocks(_)
splitBlocks(s) ==
    LET cut(i) == s[i] = "\n" /\ i < Len(s) /\ s[i + 1] \notin WhiteSpace
    IN  IF \E i \in 1..Len(s) : cut(i)
        THEN LET i == CHOOSE i \in 1..Len(s) : cut(i) /\ \A j \in 1..(i - 1) : ~cut(j)
             IN  <<stripCR(SubSeq(s, 1, i - 1))>> \o splitBlocks(SliceFrom(s, i + 1))
        ELSE <<s>>

\* idx >= 0 ? rawEmail.slice(0, idx) : rawEmail
headerPart(rawEmail) ==
    With(searchBlankLine(rawEmail), LAMBDA idx :
        IF idx > 0 THEN SubSeq(rawEmail, 1, idx - 1) ELSE rawEmail)

\* The first result with status "pass", else the first result, else Null:
\* results.find(r => r?.status?.result === "pass") || results[0]
pickResult(results) ==
    LET passing == {i \in 1..Len(results) : results[i].status = "pass"}
    IN  IF passing # {} THEN results[CHOOSE i \in passing : \A j \in passing : i <= j]
        ELSE IF results # << >> THEN results[1]
        ELSE Null

\* The loop over the candidate blocks that derives the signed headers from the
\* DKIM-Signature header matching the picked result; "" stands for undefined
RECURSIVE matchSignedHeaders(_, _, _, _)
matchSignedHeaders(blocks, d, sel, passSig) ==
    IF blocks = << >> THEN << >>
    ELSE With(parseDkimSignature(Head(blocks)), LAMBDA parsed :
            IF parsed # Null
                 /\ toLowerCase(parsed.d) = toLowerCase(d)
                 /\ parsed.s = sel
                 /\ (passSig = << >> \/ passSig = parsed.b)
            THEN parsed.h
            ELSE matchSignedHeaders(Tail(blocks), d, sel, passSig))

\* verifyRawEmailWithLibrary without its catch: a throw of the library is a
\* rejection of the returned promise
verifyRawEmailWithLibraryUncaught(rawEmail, out) ==
    IF out.throws THEN [rejected |-> TRUE]
    ELSE With(pickResult(out.results), LAMBDA pass :
        IF pass = Null THEN Fail("no dkim signatures found", << >>)
        ELSE IF pass.signingDomain = << >> \/ pass.selector = << >>
        THEN Fail("dkim signature missing selector/domain", << >>)
        ELSE With(headerPart(rawEmail), LAMBDA headersText :
             With(parseHeaders(headersText), LAMBDA headers :
             With(IF pass.keysIsArray /\ pass.keys # << >> THEN pass.keys
                  ELSE matchSignedHeaders(
                          IF headers.rawDkim # << >> THEN <<headers.rawDkim>>
                          ELSE SelectSeq(splitBlocks(headersText), isDkimBlock),
                          pass.signingDomain, pass.selector,
                          stripWhiteSpace(pass.signature)),
                  LAMBDA signedHeaders :
                [ok |-> TRUE, domain |-> pass.signingDomain,
                 subject |-> getHeaderValue(headers.list, Str_subject),
                 signedHeaders |-> [i \in 1..Len(signedHeaders) |->
                                       toLowerCase(signedHeaders[i])],
                 reason |-> NoReason]))))

\* verifyRawEmailWithLibrary(rawEmail), given what the import of the library
\* and its dkimVerify yield: out.throws, or out.results, each result being
\* [status, signingDomain, selector, keysIsArray, keys, signature]
verifyRawEmailWithLibrary(rawEmail, out) ==
    IF out.throws THEN Fail("error: library", << >>)
    ELSE With(pickResult(out.results), LAMBDA pass :
        IF pass = Null THEN Fail("no dkim signatures found", << >>)
        ELSE IF pass.signingDomain = << >> \/ pass.selector = << >>
        THEN Fail("dkim signature missing selector/domain", << >>)
        ELSE With(headerPart(rawEmail), LAMBDA headersText :
             With(parseHeaders(headersText), LAMBDA headers :
             With(IF pass.keysIsArray /\ pass.keys # << >> THEN pass.keys
                  ELSE matchSignedHeaders(
                          IF headers.rawDkim # << >> THEN <<headers.rawDkim>>
                          ELSE SelectSeq(splitBlocks(headersText), isDkimBlock),
                          pass.signingDomain, pass.selector,
                          stripWhiteSpace(pass.signature)),
                  LAMBDA signedHeaders :
                [ok |-> TRUE, domain |-> pass.signingDomain,
                 subject |-> getHeaderValue(headers.list, Str_subject),
                 signedHeaders |-> [i \in 1..Len(signedHeaders) |->
                                       toLowerCase(signedHeaders[i])],
                 reason |-> NoReason]))))

\* Whether the signature of DKIM-Signature block `block` of a message with the
\* headers `list` verifies against the key its d= domain publishes
signatureVerifies(list, block) ==
    With(parseDkimSignature(block), LAMBDA dkim :
        /\ dkim # Null
        /\ cryptoVerify(wrapPem(keyMaterial(dkim.d)),
                        signedDataOf(list, dkim.h, block), dkim.b) = "true")

\* What the DKIM library can report for a raw message: it throws, or gives
\* one result per DKIM-Signature header it can parse.  A result says "pass"
\* only for a signature that verifies (it may say "fail" for any, as when the
\* key lookup fails); it may or may not give the signed header names as an
\* array, and may or may not give the signature value.
libraryResult(list, block, status, keysIsArray, withSig) ==
    With(parseDkimSignature(block), LAMBDA dkim :
        [status |-> status,
         signingDomain |-> dkim.d,
         selector |-> dkim.s,
         keysIsArray |-> keysIsArray,
         keys |-> SelectSeq(dkim.h, LAMBDA n :
                     \E i \in 1..Len(list) : toLowerCase(list[i].name) = n),
         signature |-> IF withSig THEN dkim.b ELSE << >>])

\* The results the library can give for the DKIM-Signature blocks, in order
RECURSIVE libraryResults(_, _)
libraryResults(list, blocks) ==
    IF blocks = << >> THEN {<< >>}
    ELSE LET b == Head(blocks)
             statuses == IF signatureVerifies(list, b) THEN {"pass", "fail"} ELSE {"fail"}
             first == {libraryResult(list, b, st, ka, ws) :
                          st \in statuses, ka \in BOOLEAN, ws \in BOOLEAN}
             rest == libraryResults(list, Tail(blocks))
         IN  {<<r>> \o rs : r \in first, rs \in rest}

LibraryOutputs(rawEmail) ==
    With(parseHeaders(headerPart(rawEmail)), LAMBDA headers :
        {[throws |-> TRUE, results |-> << >>]}
          \cup {[throws |-> FALSE, results |-> r] :
                   r \in libraryResults(headers.list,
                            SelectSeq(headers.rawBlocks,
                                      LAMBDA b : isDkimBlock(b) /\ parseDkimSignature(b) # Null))})


\* ------------------------------------------------------------------------
\* services/store: the session store
\* ------------------------------------------------------------------------

\* const TTL_MS = 30 * 60 * 1000
TTL_MS == 30 * 60 * 1000

\* The clock advances in steps of a quarter of an hour
TickMs == 15 * 60 * 1000

\* Bounds of the model
MaxTicks == 2

MaxSessions == 1

MaxRestarts == 1

MaxPending == 1

SessionIds == 1..MaxSessions

\* crypto.randomBytes(8).toString("hex"): lower-case hex digits
Nonces == {<<"7","f">>}

\* A Map keyed by session id, as the set of its values
mapGet(M, id) == IF \E x \in M : x.id = id THEN CHOOSE x \in M : x.id = id ELSE Null

mapSet(M, x) == {y \in M : y.id # x.id} \cup {x}

mapDelete(M, id) == {y \in M : y.id # id}

\* now - createdAt > TTL_MS: a session of age exactly TTL_MS still counts
expiredLate(x, t) == t - x.createdAt > TTL_MS

expired(x, t) == t - x.createdAt >= TTL_MS

\* createSession(domain): the new session, with the id and nonce drawn and
\* the clock read
createSession(domain, id, nonce, t) ==
    [id |-> id, domain |-> toLowerCase(domain), nonce |-> nonce, createdAt |-> t]

\* The synchronous start of getSession: SESSIONS after pruning at time t
pruneExpired(M, t) == {x \in M : ~expired(x, t)}

\* A load that restarts the life of the sessions it reads
loadFromDiskRefreshing(M, arr, t) ==
    {y \in M : ~\E x \in arr : ~expired(x, t) /\ x.id = y.id}
        \cup {[x EXCEPT !.createdAt = t] : x \in {z \in arr : ~expired(z, t)}}

\* loadFromDisk once the file is read: SESSIONS with every unexpired session
\* of the file set
loadFromDisk(M, arr, t) ==
    {y \in M : ~\E x \in arr : ~expired(x, t) /\ x.id = y.id}
        \cup {x \in arr : ~expired(x, t)}

\* deleteSession(id)
deleteSession(M, id) == mapDelete(M, id)

\* ------------------------------------------------------------------------
\* POST /api/verify-dkim-headers: the binding checks
\* ------------------------------------------------------------------------

Response(status, ok, reason, error, domain) ==
    [status |-> status, ok |-> ok, reason |-> reason, error |-> error, domain |-> domain]

\* subject.includes(nonce) without lower-casing the Subject value
bindingChecksCaseSensitive(v, session) ==
    IF ~v.ok \/ v.domain = << >>
    THEN Response(400, FALSE,
                  IF v.reason = NoReason THEN Reason("dkim failed", << >>) ELSE v.reason,
                  "", << >>)
    ELSE LET domain  == toLowerCase(v.domain)
             signed  == [i \in 1..Len(v.signedHeaders) |-> toLowerCase(v.signedHeaders[i])]
         IN  IF domain # session.domain
             THEN Response(400, FALSE, Reason("domain mismatch", << >>), "", << >>)
             ELSE IF ~includes(v.subject, toLowerCase(session.nonce))
             THEN Response(400, FALSE, Reason("nonce not found in subject", << >>), "", << >>)
             ELSE IF ~arrayIncludes(signed, Str_subject)
             THEN Response(400, FALSE, Reason("subject not signed by dkim", << >>), "", << >>)
             ELSE Response(200, TRUE, NoReason, "", domain)

\* The checks of the rawEmail branch once the session is found
bindingChecksRaw(v, session) ==
    IF ~v.ok \/ v.domain = << >>
    THEN Response(400, FALSE,
                  IF v.reason = NoReason THEN Reason("dkim failed", << >>) ELSE v.reason,
                  "", << >>)
    ELSE LET domain  == toLowerCase(v.domain)
             subject == toLowerCase(v.subject)
             signed  == [i \in 1..Len(v.signedHeaders) |-> toLowerCase(v.signedHeaders[i])]
         IN  IF domain # session.domain
             THEN Response(400, FALSE, Reason("domain mismatch", << >>), "", << >>)
             ELSE IF ~includes(subject, toLowerCase(session.nonce))
             THEN Response(400, FALSE, Reason("nonce not found in subject", << >>), "", << >>)
             ELSE IF ~arrayIncludes(signed, Str_subject)
             THEN Response(400, FALSE, Reason("subject not signed by dkim", << >>), "", << >>)
             ELSE Response(200, TRUE, NoReason, "", domain)

\* domain === session.domain replaced by a suffix match
bindingChecksSuffix(v, session) ==
    IF ~v.ok \/ v.domain = << >>
    THEN Response(400, FALSE,
                  IF v.reason = NoReason THEN Reason("dkim failed", << >>) ELSE v.reason,
                  "", << >>)
    ELSE LET domain  == toLowerCase(v.domain)
             subject == toLowerCase(v.subject)
             signed  == [i \in 1..Len(v.signedHeaders) |-> toLowerCase(v.signedHeaders[i])]
         IN  IF ~(Len(domain) >= Len(session.domain)
                    /\ SliceFrom(domain, Len(domain) - Len(session.domain) + 1) = session.domain)
             THEN Response(400, FALSE, Reason("domain mismatch", << >>), "", << >>)
             ELSE IF ~includes(subject, toLowerCase(session.nonce))
             THEN Response(400, FALSE, Reason("nonce not found in subject", << >>), "", << >>)
             ELSE IF ~arrayIncludes(signed, Str_subject)
             THEN Response(400, FALSE, Reason("subject not signed by dkim", << >>), "", << >>)
             ELSE Response(200, TRUE, NoReason, "", domain)

\* The checks of the headers-only branch once the session is found
bindingChecksHeaders(v, session) ==
    IF ~v.ok \/ v.domain = << >>
    THEN Response(400, FALSE,
                  IF v.reason = NoReason THEN Reason("dkim failed", << >>) ELSE v.reason,
                  "", << >>)
    ELSE LET domain  == toLowerCase(v.domain)
             subject == toLowerCase(v.subject)
             signed  == [i \in 1..Len(v.signedHeaders) |-> toLowerCase(v.signedHeaders[i])]
         IN  IF domain # session.domain
             THEN Response(400, FALSE, Reason("domain mismatch", << >>), "", << >>)
             ELSE IF ~includes(subject, toLowerCase(session.nonce))
             THEN Response(400, FALSE, Reason("nonce not found in subject", << >>), "", << >>)
             ELSE IF ~arrayIncludes(signed, Str_subject)
             THEN Response(400, FALSE, Reason("subject not signed by dkim", << >>), "", << >>)
             ELSE Response(200, TRUE, NoReason, "", domain)

SessionNotFound == Response(404, FALSE, NoReason, "session not found", << >>)


\* ------------------------------------------------------------------------
\* The verification functions applied to each message of Inputs
\* ------------------------------------------------------------------------

\* Whether verifyHeadersOnly on message i gets as far as the TXT lookup
headersReachDns == [i \in Inputs |-> reachesDns(MessageText(i[1], i[2]))]

\* verifyHeadersOnly(headersText) of message i, for each answer of the resolver
headersResult ==
    [i \in Inputs |->
        [a \in DnsAnswers(baseDomain(i[1])) |-> verifyHeadersOnly(MessageText(i[1], i[2]), a)]]

\* What the DKIM library can return for message i
libraryOutputs == [i \in Inputs |-> LibraryOutputs(RawEmail(i[1], i[2]))]

\* verifyRawEmailWithLibrary(rawEmail) of message i, for each return of the library
rawResult ==
    [i \in Inputs |->
        [o \in libraryOutputs[i] |-> verifyRawEmailWithLibrary(RawEmail(i[1], i[2]), o)]]

\* ------------------------------------------------------------------------
\* services/store/zkUsers: the commitment store
\* ------------------------------------------------------------------------

\* let MEM: ZKUserStore = {}
EmptyStore == << >>

\* MEM[d] || []
storeGet(M, d) == IF d \in DOMAIN M THEN M[d] ELSE << >>

\* addZKUser(domain, hHex): MEM after the call
addZKUser(M, domain, hHex) ==
    With(toLowerCase(domain), LAMBDA d :
    With(storeGet(M, d), LAMBDA arr :
        [x \in DOMAIN M \cup {d} |->
            IF x = d THEN (IF arrayIncludes(arr, hHex) THEN arr ELSE Append(arr, hHex))
            ELSE M[x]]))

\* hasZKUser(domain, hHex)
hasZKUser(M, domain, hHex) == arrayIncludes(storeGet(M, toLowerCase(domain)), hHex)

\* ------------------------------------------------------------------------
\* POST /api/register-zk
\* ------------------------------------------------------------------------

HexDigits == <<"0","1","2","3","4","5","6","7","8","9","a","b","c","d","e","f">>

\* BigInt(n).toString(16)
RECURSIVE toHex(_)
toHex(n) == IF n < 16 THEN <<HexDigits[n + 1]>> ELSE toHex(n \div 16) \o <<HexDigits[(n % 16) + 1]>>

\* s.padStart(width, "0")
padStart(s, width) == [i \in 1..(width - Len(s)) |-> "0"] \o s

\* The width of each half of hHex in hex digits
HalfWidth == 32

\* "0x" + hi + lo of the public signals [h_hi, h_lo]
hHexOfSignals(signals) ==
    <<"0", "x">> \o padStart(toHex(signals[1]), HalfWidth) \o padStart(toHex(signals[2]), HalfWidth)

\* /^0x[0-9a-fA-F]{64}$/.test(h)
isHHex(h) ==
    /\ Len(h) = 2 + 2 * HalfWidth
    /\ h[1] = "0" /\ h[2] = "x"
    /\ \A i \in 3..Len(h) : \E k \in 1..16 : toLowerChar(h[i]) = HexDigits[k]

\* The public signals of the proofs a client holds
ProofSignals == <<1, 255>>

\* The hHex fields a client can send: none, a well-formed one in upper case
\* that is not the commitment of its proof, a malformed one
BodyHHex ==
    { << >>,
      <<"0", "x">> \o padStart(<<"A", "B">>, 2 * HalfWidth),
      <<"0", "x", "1">> }

\* publicSignals of the body: absent, the array of the two signals, an object
\* with the two signals at its keys 0 and 1 that is no array
SignalKinds == {"absent", "array", "arrayLike"}

\* proof of the body: absent, a proof of the signals, another value
ProofKinds == {"absent", "valid", "invalid"}

\* The domains a client names in POST /api/register-zk: none, "E.c"
RegisterDomains == {<< >>, <<"E",".","c">>}

ZkResponse(status, ok, error, domain, hHex) ==
    [status |-> status, ok |-> ok, error |-> error, domain |-> domain, hHex |-> hHex]

\* pc: idle, vk (awaiting getVerificationKey), verify (awaiting the child
\* process that checks the proof), done (response sent)
IdleZkReq ==
    [pc |-> "idle", domain |-> << >>, proof |-> "absent", signals |-> "absent",
     body |-> << >>, out |-> ZkResponse(0, FALSE, "", << >>, << >>)]

\* ------------------------------------------------------------------------
\* The state: the session store, the clock, and one verification request
\* ------------------------------------------------------------------------

VARIABLES
    now,            \* Date.now()
    SESSIONS,       \* the in-memory Map of sessions
    disk,           \* the sessions in .data/sessions.json
    persistPending, \* persistToDisk calls that have not yet read SESSIONS
    writes,         \* snapshots of SESSIONS being written by persistToDisk
    initLoad,       \* whether the loadFromDisk of module initialisation is pending
    nextId,         \* the number of sessions created so far, plus one
    restarts,       \* how often the server process has been restarted
    req,            \* the POST /api/verify-dkim-headers request in progress
    created,        \* history: every session as createSession returned it
    okCount,        \* history: per session id, the attempts answered ok:true
    MEM,            \* the in-memory commitment store: domain -> array of hHex
    zkDisk,         \* the store in .data/zk-users.json
    zkSaves,        \* saveZKStore calls that have not yet serialised MEM
    zkWrites,       \* serialisations of MEM being written by saveZKStore
    zkInitLoad,     \* whether the loadZKStore of module initialisation is pending
    zkReq,          \* the POST /api/register-zk request in progress
    input,          \* the arguments of a function of the header engine under test
    output,         \* what the function returned for them
    other,          \* a second POST /api/verify-dkim-headers request in progress
    badge,          \* the DomainBadge contract: its storage and the block time
    deleted         \* history: the ids deleteSession has returned for

zkVars == <<MEM, zkDisk, zkSaves, zkWrites, zkInitLoad, zkReq>>

pureVars == <<input, output, other, badge, deleted>>

vars == <<now, SESSIONS, disk, persistPending, writes, initLoad, nextId, restarts,
          req, created, okCount, zkVars, pureVars>>

storeVars == <<SESSIONS, disk, persistPending, writes, initLoad, nextId, restarts, created>>

NoV == [ok |-> FALSE, domain |-> << >>, subject |-> << >>, signedHeaders |-> << >>,
        reason |-> NoReason]

NoResponse == Response(0, FALSE, NoReason, "", << >>)

\* pc: idle, lib (awaiting the DKIM library), load (awaiting the file read of
\* getSession), dns (awaiting the TXT lookup), done (response sent).
\* checked lists the checks in the order they were started; gsAt is the
\* clock that getSession read.
IdleReq ==
    [pc |-> "idle", path |-> "", sid |-> 0, n |-> 0, t |-> "", v |-> NoV,
     session |-> Null, out |-> NoResponse, checked |-> << >>, gsAt |-> 0]

\* The second request, of which the calls of getSession are followed.  pc:
\* idle, load (awaiting the file read of getSession), done (getSession has
\* returned `session`)
IdleOther == [pc |-> "idle", sid |-> 0, session |-> Null]

\* no DomainBadge contract has been deployed
NotDeployed == [deployed |-> FALSE]

\* The domains a client claims in POST /api/session: " E.c", "m.e.c", ""
ClaimInputs == {<<" ","E",".","c">>, <<"m",".","e",".","c">>, << >>}

\* sessionId of a request: -1 for none, 0 for an id no session has
SidInputs == {-1, 0} \cup SessionIds

Paths == {"raw", "headers", "none"}

\* The requests drawn: every message on both branches for the id of a
\* session, the untampered first message for every branch and id
Requests ==
    {<<path, sid, i[1], i[2]>> : path \in {"raw", "headers"}, sid \in SessionIds, i \in Inputs}
        \cup {<<path, sid, 0, "none">> : path \in Paths, sid \in SidInputs}

\* No function of the header engine is under test
NoInput == [list |-> << >>, hList |-> << >>]

NoOutput == [dkim |-> [done |-> FALSE, idx |-> << >>], cli |-> [done |-> FALSE, idx |-> << >>]]

\* The state after the modules are loaded
BackendInit ==
    /\ now = 0
    /\ SESSIONS = {}
    /\ disk = {}
    /\ persistPending = 0
    /\ writes = {}
    /\ initLoad = TRUE
    /\ nextId = 1
    /\ restarts = 0
    /\ req = IdleReq
    /\ created = {}
    /\ okCount = [i \in SessionIds |-> 0]
    /\ MEM = EmptyStore
    /\ zkDisk = EmptyStore
    /\ zkSaves = 0
    /\ zkWrites = {}
    /\ zkInitLoad = TRUE
    /\ zkReq = IdleZkReq
    /\ other = IdleOther
    /\ deleted = {}

ServerInit ==
    /\ BackendInit
    /\ badge = NotDeployed

Init == ServerInit /\ input = NoInput /\ output = NoOutput

\* Time passes
Tick ==
    /\ now < MaxTicks * TickMs
    /\ now' = now + TickMs
    /\ UNCHANGED <<pureVars, zkVars, storeVars, req, okCount>>

\* POST /api/session
PostSession(domainInput) ==
    LET domain == trim(domainInput)
    IN  IF domain = << >>
        THEN UNCHANGED vars
        ELSE /\ nextId <= MaxSessions
             /\ persistPending < MaxPending
             /\ \E nonce \in Nonces :
                  LET s == createSession(domain, nextId, nonce, now)
                  IN  /\ SESSIONS' = mapSet(SESSIONS, s)
                      /\ created' = created \cup {s}
             /\ persistPending' = persistPending + 1
             /\ nextId' = nextId + 1
             /\ UNCHANGED <<pureVars, zkVars, now, disk, writes, initLoad, restarts, req, okCount>>

\* persistToDisk after ensureDir: Array.from(SESSIONS.values()) is taken
PersistSnapshot ==
    /\ persistPending > 0
    /\ persistPending' = persistPending - 1
    /\ writes' = writes \cup {SESSIONS}
    /\ UNCHANGED <<pureVars, zkVars, now, SESSIONS, disk, initLoad, nextId, restarts, req, created, okCount>>

\* fs.writeFile of persistToDisk completes
PersistWrite ==
    \E w \in writes :
        /\ disk' = w
        /\ writes' = writes \ {w}
        /\ UNCHANGED <<pureVars, zkVars, now, SESSIONS, persistPending, initLoad, nextId, restarts, req,
                       created, okCount>>

\* The loadFromDisk started at module initialisation completes
InitLoadReturn ==
    /\ initLoad
    /\ initLoad' = FALSE
    /\ SESSIONS' = loadFromDisk(SESSIONS, disk, now)
    /\ UNCHANGED <<pureVars, zkVars, now, disk, persistPending, writes, nextId, restarts, req, created, okCount>>

\* The server process restarts: the module is initialised again
Restart ==
    /\ restarts < MaxRestarts
    /\ restarts' = restarts + 1
    /\ SESSIONS' = {}
    /\ persistPending' = 0
    /\ writes' = {}
    /\ initLoad' = TRUE
    /\ req' = IdleReq
    /\ MEM' = EmptyStore
    /\ zkSaves' = 0
    /\ zkWrites' = {}
    /\ zkInitLoad' = TRUE
    /\ zkReq' = IdleZkReq
    /\ UNCHANGED <<pureVars, now, disk, zkDisk, nextId, created, okCount>>

\* The response is sent
Done(r, resp) ==
    /\ req' = [r EXCEPT !.pc = "done", !.out = resp]
    /\ okCount' = IF resp.ok /\ r.sid \in SessionIds
                  THEN [okCount EXCEPT ![r.sid] = IF @ < 2 THEN @ + 1 ELSE @]
                  ELSE okCount

\* The headers-only branch once verifyHeadersOnly has returned v
DoneHeaders(r, v) == Done([r EXCEPT !.v = v], bindingChecksHeaders(v, r.session))

\* The route once getSession has returned a session
Continue(r, session) ==
    IF r.path = "raw"
    THEN Done([r EXCEPT !.session = session], bindingChecksRaw(r.v, session))
    ELSE IF headersReachDns[<<r.n, r.t>>]
         THEN /\ req' = [r EXCEPT !.pc = "dns", !.session = session,
                                  !.checked = Append(@, "dkim")]
              /\ UNCHANGED okCount
         ELSE DoneHeaders([r EXCEPT !.session = session, !.checked = Append(@, "dkim")],
                          headersResult[<<r.n, r.t>>][DnsKeyAnswer(baseDomain(r.n))])

\* getSession(id) up to its first await
GetSession(r) ==
    LET M == pruneExpired(SESSIONS, now)
        found == mapGet(M, r.sid)
        r1 == [r EXCEPT !.checked = Append(@, "session"), !.gsAt = now]
    IN  /\ SESSIONS' = M
        /\ IF found # Null
           THEN Continue(r1, found)
           ELSE /\ req' = [r1 EXCEPT !.pc = "load"]
                /\ UNCHANGED okCount

\* POST /api/verify-dkim-headers arrives
VerifyStart(path, sid, n, t) ==
    /\ req.pc = "idle"
    /\ LET r == [IdleReq EXCEPT !.path = path, !.sid = sid, !.n = n, !.t = t]
       IN  IF sid = -1
           THEN /\ Done(r, Response(400, FALSE, NoReason, "sessionId required", << >>))
                /\ UNCHANGED SESSIONS
           ELSE IF path = "raw"
           THEN /\ req' = [r EXCEPT !.pc = "lib", !.checked = <<"dkim">>]
                /\ UNCHANGED <<SESSIONS, okCount>>
           ELSE IF path = "none"
           THEN /\ Done(r, Response(400, FALSE, NoReason,
                                    "headersText or rawEmail required", << >>))
                /\ UNCHANGED SESSIONS
           ELSE GetSession(r)
    /\ UNCHANGED <<pureVars, zkVars, now, disk, persistPending, writes, initLoad, nextId, restarts, created>>

\* The DKIM library returns to verifyRawEmailWithLibrary
LibReturn(out) ==
    /\ req.pc = "lib"
    /\ GetSession([req EXCEPT !.v = rawResult[<<req.n, req.t>>][out]])
    /\ UNCHANGED <<pureVars, zkVars, now, disk, persistPending, writes, initLoad, nextId, restarts, created>>

\* The file read of loadFromDisk inside getSession completes; it fails when
\* it meets a write in progress
LoadReturn(readOk) ==
    /\ req.pc = "load"
    /\ readOk \/ writes # {}
    /\ LET M == IF readOk THEN loadFromDisk(SESSIONS, disk, now) ELSE SESSIONS
           found == mapGet(M, req.sid)
       IN  /\ SESSIONS' = M
           /\ IF found = Null THEN Done(req, SessionNotFound) ELSE Continue(req, found)
    /\ UNCHANGED <<pureVars, zkVars, now, disk, persistPending, writes, initLoad, nextId, restarts, created>>

\* dns.resolveTxt returns to verifyHeadersOnly
DnsReturn(answer) ==
    /\ req.pc = "dns"
    /\ DoneHeaders(req, headersResult[<<req.n, req.t>>][answer])
    /\ UNCHANGED <<pureVars, zkVars, now, storeVars>>

\* The client has the response; the next request can be made
Respond ==
    /\ req.pc = "done"
    /\ req' = IdleReq
    /\ UNCHANGED <<pureVars, zkVars, now, storeVars, okCount>>

\* POST /api/register-zk arrives
RegisterStart(domainInput, proof, signals, body) ==
    /\ zkReq.pc = "idle"
    /\ LET r == [IdleZkReq EXCEPT !.domain = toLowerCase(domainInput), !.proof = proof,
                                  !.signals = signals, !.body = body]
       IN  IF r.domain = << >> \/ proof = "absent" \/ signals = "absent"
           THEN zkReq' = [r EXCEPT !.pc = "done",
                                   !.out = ZkResponse(400, FALSE,
                                              "domain, proof, publicSignals required",
                                              << >>, << >>)]
           ELSE zkReq' = [r EXCEPT !.pc = "vk"]
    /\ UNCHANGED <<pureVars, now, storeVars, req, okCount, MEM, zkDisk, zkSaves, zkWrites, zkInitLoad>>

\* getVerificationKey returns or throws
VkReturn(found) ==
    /\ zkReq.pc = "vk"
    /\ zkReq' = IF found THEN [zkReq EXCEPT !.pc = "verify"]
                ELSE [zkReq EXCEPT !.pc = "done",
                                   !.out = ZkResponse(500, FALSE, "vkey", << >>, << >>)]
    /\ UNCHANGED <<pureVars, now, storeVars, req, okCount, MEM, zkDisk, zkSaves, zkWrites, zkInitLoad>>

\* What the child process can yield for the request: "timeout", "false", and
\* "true" only for a proof of the signals it was given
VerifyResults(r) == {"timeout", "false"} \cup (IF r.proof = "valid" THEN {"true"} ELSE {})

\* The hHex the handler derives after a verified proof, "" when it answers 400
derivedHHex(r) ==
    IF r.signals = "array" THEN hHexOfSignals(ProofSignals)
    ELSE IF r.body # << >> /\ isHHex(r.body) THEN toLowerCase(r.body)
    ELSE << >>

\* The child process exits or is killed; the handler runs to its response
VerifyReturn(result) ==
    /\ zkReq.pc = "verify"
    /\ result \in VerifyResults(zkReq)
    /\ IF result = "timeout"
       THEN /\ zkReq' = [zkReq EXCEPT !.pc = "done",
                            !.out = ZkResponse(504, FALSE, "verification timeout", << >>, << >>)]
            /\ UNCHANGED <<MEM, zkSaves>>
       ELSE IF result = "false"
       THEN /\ zkReq' = [zkReq EXCEPT !.pc = "done",
                            !.out = ZkResponse(400, FALSE, "invalid ZK proof", << >>, << >>)]
            /\ UNCHANGED <<MEM, zkSaves>>
       ELSE IF derivedHHex(zkReq) = << >>
       THEN /\ zkReq' = [zkReq EXCEPT !.pc = "done",
                            !.out = ZkResponse(400, FALSE,
                                       "cannot derive hHex from publicSignals; provide hHex",
                                       << >>, << >>)]
            /\ UNCHANGED <<MEM, zkSaves>>
       ELSE /\ zkSaves < MaxPending
            /\ MEM' = addZKUser(MEM, zkReq.domain, derivedHHex(zkReq))
            /\ zkSaves' = zkSaves + 1
            /\ zkReq' = [zkReq EXCEPT !.pc = "done",
                            !.out = ZkResponse(200, TRUE, "", zkReq.domain, derivedHHex(zkReq))]
    /\ UNCHANGED <<pureVars, now, storeVars, req, okCount, zkDisk, zkWrites, zkInitLoad>>

\* The client has the response of register-zk
ZkRespond ==
    /\ zkReq.pc = "done"
    /\ zkReq' = IdleZkReq
    /\ UNCHANGED <<pureVars, now, storeVars, req, okCount, MEM, zkDisk, zkSaves, zkWrites, zkInitLoad>>

\* saveZKStore after ensureDir: JSON.stringify(MEM) is taken
ZkSaveSnapshot ==
    /\ zkSaves > 0
    /\ zkSaves' = zkSaves - 1
    /\ zkWrites' = zkWrites \cup {MEM}
    /\ UNCHANGED <<pureVars, now, storeVars, req, okCount, MEM, zkDisk, zkInitLoad, zkReq>>

\* fs.writeFile of saveZKStore completes
ZkSaveWrite ==
    \E w \in zkWrites :
        /\ zkDisk' = w
        /\ zkWrites' = zkWrites \ {w}
        /\ UNCHANGED <<pureVars, now, storeVars, req, okCount, MEM, zkSaves, zkInitLoad, zkReq>>

\* The loadZKStore started at module initialisation completes: MEM becomes
\* the store of the file, or {} when the read fails
ZkInitLoadReturn(readOk) ==
    /\ zkInitLoad
    /\ readOk \/ zkWrites # {}
    /\ zkInitLoad' = FALSE
    /\ MEM' = IF readOk THEN zkDisk ELSE EmptyStore
    /\ UNCHANGED <<pureVars, now, storeVars, req, okCount, zkDisk, zkSaves, zkWrites, zkReq>>

Next ==
    \/ Tick
    \/ \E d \in ClaimInputs : PostSession(d)
    \/ PersistSnapshot
    \/ PersistWrite
    \/ InitLoadReturn
    \/ Restart
    \/ \E r \in Requests : VerifyStart(r[1], r[2], r[3], r[4])
    \/ /\ req.pc = "lib"
       /\ \E out \in libraryOutputs[<<req.n, req.t>>] : LibReturn(out)
    \/ \E readOk \in BOOLEAN : LoadReturn(readOk)
    \/ /\ req.pc = "dns"
       /\ \E a \in DnsAnswers(baseDomain(req.n)) : DnsReturn(a)
    \/ Respond

Spec == Init /\ [][Next]_vars

\* The requests of the registration scenario: the untampered messages of the
\* two subjects signed by E.C with Subject in h=, on both branches
RegistrationRequests ==
    {<<path, sid, n, "none">> : path \in {"raw", "headers"}, sid \in SessionIds,
                               n \in {0, Len(SignDomains)}}

\* The registrations of the scenario: with and without a domain, a proof and
\* the array of public signals, no hHex field
RegistrationInputs ==
    {<<d, pr, sg, << >>>> : d \in RegisterDomains, pr \in ProofKinds, sg \in {"absent", "array"}}

\* Registration of commitments next to the verification of domains
NextZK ==
    \/ \E d \in ClaimInputs : PostSession(d)
    \/ \E r \in RegistrationRequests : VerifyStart(r[1], r[2], r[3], r[4])
    \/ /\ req.pc = "lib"
       /\ \E out \in libraryOutputs[<<req.n, req.t>>] : LibReturn(out)
    \/ \E readOk \in BOOLEAN : LoadReturn(readOk)
    \/ /\ req.pc = "dns"
       /\ \E a \in DnsAnswers(baseDomain(req.n)) : DnsReturn(a)
    \/ Respond
    \/ \E i \in RegistrationInputs : RegisterStart(i[1], i[2], i[3], i[4])
    \/ \E found \in BOOLEAN : VkReturn(found)
    \/ \E result \in {"true", "false", "timeout"} : VerifyReturn(result)
    \/ ZkRespond
    \/ ZkSaveSnapshot
    \/ ZkSaveWrite
    \/ \E readOk \in BOOLEAN : ZkInitLoadReturn(readOk)

SpecZK == Init /\ [][NextZK]_vars


\* ------------------------------------------------------------------------
\* What is true of a submitted message, by its construction
\* ------------------------------------------------------------------------

\* The h= of the signature the signer made lists Subject
hasSubjectInH(n) == baseH(n) = HLists[1]

\* The value of the last Subject header of the submitted message
submittedSubject(n, t) ==
    IF t = "addSubject" THEN SliceFrom(Str_spliced_subject, Len(Str_Subject_colon) + 1)
    ELSE baseSubject(n)

\* The submitted message carries a signature that verifies: the signer's
\* signature is there unaltered, and no header it covers was changed (an
\* appended Subject changes the signed data exactly when Subject is signed)
signerVerifies(n, t) ==
    \/ t \in {"none", "forge"}
    \/ t = "addSubject" /\ ~hasSubjectInH(n)

\* a and b are the same string up to the case of letters
sameIgnoringCase(a, b) ==
    /\ Len(a) = Len(b)
    /\ \A i \in 1..Len(a) : toLowerChar(a[i]) = toLowerChar(b[i])

\* sub occurs in s up to the case of letters
containsIgnoringCase(s, sub) ==
    \E i \in 0..(Len(s) - Len(sub)) :
        \A k \in 1..Len(sub) : toLowerChar(s[i + k]) = toLowerChar(sub[k])

\* The attempt in progress has been answered
Answered == req.pc = "done"

\* getSession returned a session to the attempt in progress
SessionFound == req.session # Null

ReasonIs(text) == req.out.reason.text = text

\* ------------------------------------------------------------------------
\* C1
\* ------------------------------------------------------------------------

\* C1: the route answers ok:true only if a DKIM signature on the submitted
\* message verifies; a message whose signatures all fail never gets ok:true.
C1_OkOnlyIfVerified == Answered /\ req.out.ok => signerVerifies(req.n, req.t)

\* ------------------------------------------------------------------------
\* C2
\* ------------------------------------------------------------------------

\* The checks were started in the order session, DKIM: the DKIM check only
\* after the session was found
sessionBeforeDkim ==
    \/ req.checked = << >>
    \/ req.checked = <<"session">> 
    \/ req.checked = <<"session", "dkim">> /\ (Answered => SessionFound)

\* The reason of a failed attempt is that of the first check, in the order
\* session, DKIM, domain, nonce, subject signed, that fails
firstFailingReason ==
    Answered /\ req.checked # << >> =>
        IF ~SessionFound THEN req.out = SessionNotFound
        ELSE IF ~signerVerifies(req.n, req.t)
        THEN ~req.out.ok /\ req.out.reason = req.v.reason /\ ~req.v.ok
        ELSE IF ~req.v.ok THEN ~req.out.ok /\ req.out.reason = req.v.reason
        ELSE IF ~sameIgnoringCase(baseDomain(req.n), req.session.domain)
        THEN ReasonIs("domain mismatch")
        ELSE IF ~containsIgnoringCase(submittedSubject(req.n, req.t), req.session.nonce)
        THEN ReasonIs("nonce not found in subject")
        ELSE IF ~hasSubjectInH(req.n) THEN ReasonIs("subject not signed by dkim")
        ELSE req.out.ok

\* C2: on both branches the checks are evaluated in the order session exists,
\* DKIM verifies, domain equal, nonce in Subject, subject signed, each
\* short-circuiting, and a failed attempt gets the reason of the first check
\* in this order that fails.
C2_FixedOrder == sessionBeforeDkim /\ firstFailingReason

\* ------------------------------------------------------------------------
\* C3
\* ------------------------------------------------------------------------

\* C3: an attempt succeeds only when the signing domain equals the session's
\* claimed domain up to case; with a verification that passed and any other
\* signing domain (a subdomain, a longer or a shorter name) the answer is
\* "domain mismatch".
C3_DomainExact ==
    Answered /\ SessionFound =>
        /\ req.out.ok => sameIgnoringCase(baseDomain(req.n), req.session.domain)
        /\ req.v.ok /\ ~sameIgnoringCase(baseDomain(req.n), req.session.domain)
              => ~req.out.ok /\ ReasonIs("domain mismatch")

\* A message signed by m.e.c was refused for a session on e.c
C3_Witness ==
    /\ Answered /\ SessionFound /\ req.v.ok
    /\ ReasonIs("domain mismatch")
    /\ baseDomain(req.n) = SignDomains[2]
    /\ req.session.domain = toLowerCase(SignDomains[1])



\* ------------------------------------------------------------------------
\* C4
\* ------------------------------------------------------------------------

\* C4: an attempt with a validly signed message whose signed-header list
\* lacks Subject never succeeds, and once the session is found, the
\* verification has passed, the domain matches and the Subject holds the
\* nonce, its reason is "subject not signed by dkim".
C4_SubjectMustBeSigned ==
    Answered /\ SessionFound /\ signerVerifies(req.n, req.t) /\ ~hasSubjectInH(req.n) =>
        /\ ~req.out.ok
        /\ req.v.ok
              /\ sameIgnoringCase(baseDomain(req.n), req.session.domain)
              /\ containsIgnoringCase(submittedSubject(req.n, req.t), req.session.nonce)
              => ReasonIs("subject not signed by dkim")

\* ------------------------------------------------------------------------
\* C5
\* ------------------------------------------------------------------------

\* The attempt got as far as the nonce check
ReachedNonceCheck ==
    /\ Answered /\ SessionFound /\ req.v.ok
    /\ sameIgnoringCase(baseDomain(req.n), req.session.domain)

\* C5: an attempt that reaches the nonce check is refused with "nonce not
\* found in subject" exactly when the Subject value does not contain the
\* session nonce up to the case of letters.
C5_NonceIgnoresCase ==
    ReachedNonceCheck =>
        (ReasonIs("nonce not found in subject")
            <=> ~containsIgnoringCase(submittedSubject(req.n, req.t), req.session.nonce))

\* The Subject "VERIFY 7F" passed the nonce check of a session with nonce "7f"
C5_Witness ==
    /\ ReachedNonceCheck
    /\ submittedSubject(req.n, req.t) = Subjects[1]
    /\ ~includes(submittedSubject(req.n, req.t), req.session.nonce)
    /\ ~ReasonIs("nonce not found in subject")

\* ------------------------------------------------------------------------
\* C6
\* ------------------------------------------------------------------------

\* The session of id sid as createSession returned it, if there is one
createdWith(sid) == {s \in created : s.id = sid}

\* C6: getSession returns only a session that was created and whose age,
\* when getSession read the clock, is below 30 minutes; an attempt succeeds
\* only with such a session; and an attempt that calls getSession for an id
\* without a session, or with one of age at least 30 minutes, is answered
\* "session not found".
C6_NoExpiredSession ==
    /\ SessionFound =>
          /\ req.session \in createdWith(req.sid)
          /\ req.gsAt - req.session.createdAt < 30 * 60 * 1000
    /\ Answered /\ req.out.ok => SessionFound
    /\ Answered /\ req.checked # << >>
          /\ (\A s \in createdWith(req.sid) : req.gsAt - s.createdAt >= 30 * 60 * 1000)
          => req.out = SessionNotFound

\* An attempt for a session of age 30 minutes was answered "session not found"
C6_Witness ==
    /\ Answered /\ req.out = SessionNotFound
    /\ \E s \in createdWith(req.sid) : req.gsAt - s.createdAt = 30 * 60 * 1000

\* ------------------------------------------------------------------------
\* C7
\* ------------------------------------------------------------------------

\* C7: for no session id do two attempts return ok:true.
C7_ConsumedOnce == \A id \in SessionIds : okCount[id] <= 1

\* ------------------------------------------------------------------------
\* C8
\* ------------------------------------------------------------------------

\* Every session record the program holds
heldSessions ==
    SESSIONS \cup disk \cup UNION writes
        \cup (IF SessionFound THEN {req.session} ELSE {})

\* C8: every session record held in memory, on disk, in a write or by an
\* attempt is, in id, domain, nonce and createdAt, as createSession returned
\* it, and no id has two records.
C8_SessionUnchanged ==
    /\ heldSessions \subseteq created
    /\ \A a, b \in created : a.id = b.id => a = b

\* After an attempt refused for domain mismatch the session is in memory as created
C8_Witness ==
    /\ Answered /\ SessionFound /\ ReasonIs("domain mismatch")
    /\ mapGet(SESSIONS, req.sid) \in created
    /\ mapGet(SESSIONS, req.sid).domain # toLowerCase(baseDomain(req.n))


\* ------------------------------------------------------------------------
\* C9
\* ------------------------------------------------------------------------

\* The domains for which an attempt has been answered ok:true
boundDomains == {s.domain : s \in {c \in created : okCount[c.id] > 0}}

\* C9: when register-zk has stored a commitment for a domain and answers
\* ok:true, an attempt of verify-dkim-headers for a session on that domain
\* has been answered ok:true before.
C9_RegisterAfterBound ==
    zkReq.pc = "done" /\ zkReq.out.ok => zkReq.out.domain \in boundDomains


\* ------------------------------------------------------------------------
\* Header selection: selectSignedHeaders of dkim.ts and the loop of
\* assembleCanonicalizedHeaderBlock of the command-line parser
\* ------------------------------------------------------------------------

\* findRightmostUnused(headersList, headerName): the loop from index i down;
\* the index of the header found, 0 standing for null
RECURSIVE findRightmostUnusedFrom(_, _, _, _)
findRightmostUnusedFrom(headersList, lname, usedIndices, i) ==
    IF i < 1 THEN 0
    ELSE IF toLowerCase(headersList[i].name) = lname /\ i \notin usedIndices THEN i
    ELSE findRightmostUnusedFrom(headersList, lname, usedIndices, i - 1)

findRightmostUnused(headersList, headerName, usedIndices) ==
    findRightmostUnusedFrom(headersList, toLowerCase(headerName), usedIndices,
                            Len(headersList))

\* The loop of assembleCanonicalizedHeaderBlock over hlist: the indices of
\* the headers whose canonical form is pushed, in order
RECURSIVE assembleLoop(_, _, _)
assembleLoop(headersList, hlist, usedIndices) ==
    IF hlist = << >> THEN << >>
    ELSE With(findRightmostUnused(headersList, Head(hlist), usedIndices), LAMBDA found :
            IF found = 0 THEN assembleLoop(headersList, Tail(hlist), usedIndices)
            ELSE <<found>> \o assembleLoop(headersList, Tail(hlist),
                                           usedIndices \cup {found}))

\* Bounds of the inputs of header selection
MaxHeaders == 3

MaxH == 3

\* Header names of a message and of h=: "A" and "a" are one name
MessageNames == {<<"A">>, <<"a">>, <<"B">>}

SignedNames == {<<"a">>, <<"b">>, <<"c">>}

SeqsUpTo(S, n) == UNION {[1..k -> S] : k \in 0..n}

\* A message with the given header names; the values tell the headers apart
headersNamed(names) == [i \in 1..Len(names) |-> [name |-> names[i], value |-> <<ToString(i)>>]]

InitSelect ==
    /\ ServerInit
    /\ \E names \in SeqsUpTo(MessageNames, MaxHeaders), h \in SeqsUpTo(SignedNames, MaxH) :
          input = [list |-> headersNamed(names), hList |-> h]
    /\ output = NoOutput

serverVars == <<now, SESSIONS, disk, persistPending, writes, initLoad, nextId, restarts,
                req, created, okCount, zkVars, other, badge, deleted>>

\* selectSignedHeaders(list, hList) of dkim.ts is called
SelectSignedHeaders ==
    /\ ~output.dkim.done
    /\ output' = [output EXCEPT !.dkim = [done |-> TRUE,
                                         idx |-> selectSignedIndices(input.list, input.hList)]]
    /\ UNCHANGED <<serverVars, input>>

\* assembleCanonicalizedHeaderBlock of the command-line parser is called
AssembleCanonicalizedHeaderBlock ==
    /\ ~output.cli.done
    /\ output' = [output EXCEPT !.cli = [done |-> TRUE,
                                        idx |-> assembleLoop(input.list, input.hList, {})]]
    /\ UNCHANGED <<serverVars, input>>

NextSelect == SelectSignedHeaders \/ AssembleCanonicalizedHeaderBlock

SpecSelect == InitSelect /\ [][NextSelect]_vars

\* ------------------------------------------------------------------------
\* C10
\* ------------------------------------------------------------------------

\* name is the name of header i of the message, up to case
namedAt(list, i, name) == sameIgnoringCase(list[i].name, name)

\* The occurrence of `name` the claim describes: the rightmost header of that
\* name that is not yet picked, 0 when every one is picked or there is none
rightmostNotPicked(list, name, picked) ==
    IF \E i \in 1..Len(list) : namedAt(list, i, name) /\ i \notin picked
    THEN CHOOSE i \in 1..Len(list) :
            /\ namedAt(list, i, name) /\ i \notin picked
            /\ \A j \in (i + 1)..Len(list) : ~(namedAt(list, j, name) /\ j \notin picked)
    ELSE 0

\* The names of h= processed in listed order, from entry k on
RECURSIVE picksInOrder(_, _, _, _)
picksInOrder(list, hList, k, picked) ==
    IF k > Len(hList) THEN << >>
    ELSE With(rightmostNotPicked(list, hList[k], picked), LAMBDA i :
            IF i = 0 THEN picksInOrder(list, hList, k + 1, picked)
            ELSE <<i>> \o picksInOrder(list, hList, k + 1, picked \cup {i}))

\* The example of the specification: headers A, B, A and h = a, a, b
ExampleInput ==
    [list |-> headersNamed(<< <<"A">>, <<"B">>, <<"A">> >>),
     hList |-> << <<"a">>, <<"a">>, <<"b">> >>]

\* C10: selectSignedHeaders, and the loop of the command-line parser, take
\* the names of h= in listed order and pick for each the rightmost header of
\* that name, up to case, that is not yet picked; for the headers A, B, A and
\* h = a, a, b the picks are the third header, the first, then the second.
C10_RightmostUnused ==
    /\ output.dkim.done => output.dkim.idx = picksInOrder(input.list, input.hList, 1, {})
    /\ output.cli.done => output.cli.idx = picksInOrder(input.list, input.hList, 1, {})
    /\ input = ExampleInput /\ output.dkim.done => output.dkim.idx = <<3, 1, 2>>

\* selectSignedHeaders has picked the third, first and second header of the example
C10_Witness ==
    /\ input = ExampleInput
    /\ output.dkim.done /\ output.dkim.idx = <<3, 1, 2>>
    /\ output.cli.done

\* ------------------------------------------------------------------------
\* C11
\* ------------------------------------------------------------------------

\* How many entries of the sequence seq satisfy Test
countOf(seq, Test(_)) == Cardinality({k \in 1..Len(seq) : Test(seq[k])})

minOf(a, b) == IF a <= b THEN a ELSE b

\* The selection idx of header indices uses every header at most once and
\* holds, for each name, as many headers as the smaller of the times h= lists
\* the name and the times the message has it
selectsEachOnce(list, hList, idx) ==
    /\ \A k, l \in 1..Len(idx) : idx[k] = idx[l] => k = l
    /\ \A k \in 1..Len(idx) : idx[k] \in 1..Len(list)
    /\ \A name \in SignedNames :
          countOf(idx, LAMBDA i : namedAt(list, i, name))
            = minOf(countOf(hList, LAMBDA n : sameIgnoringCase(n, name)),
                    countOf(list, LAMBDA h : sameIgnoringCase(h.name, name)))

\* C11: in the selection of selectSignedHeaders, and of the loop of the
\* command-line parser, every header occurrence appears at most once, an
\* entry of h= without a remaining occurrence adds nothing, and a name has
\* min(times listed in h=, occurrences in the message) selected headers.
C11_EachOccurrenceOnce ==
    /\ output.dkim.done => selectsEachOnce(input.list, input.hList, output.dkim.idx)
    /\ output.cli.done => selectsEachOnce(input.list, input.hList, output.cli.idx)

\* A name listed three times with two occurrences, and an absent name:
\* two headers are selected
C11_Witness ==
    /\ input.hList = << <<"a">>, <<"a">>, <<"a">> >>
    /\ [i \in 1..Len(input.list) |-> input.list[i].name] = << <<"A">>, <<"B">>, <<"a">> >>
    /\ output.dkim.done /\ output.dkim.idx = <<3, 1>>
    /\ output.cli.done /\ output.cli.idx = <<3, 1>>

\* ------------------------------------------------------------------------
\* The command-line parser: from the raw message to the canonicalized
\* header block
\* ------------------------------------------------------------------------

\* normalizeLineEndings(s): CRLF -> LF, CR -> LF, then LF -> CRLF
toLF(s) ==
    With(SelectSeq([i \in 1..Len(s) |-> i],
                   LAMBDA i : ~(s[i] = "\r" /\ i < Len(s) /\ s[i + 1] = "\n")),
         LAMBDA keep : [k \in 1..Len(keep) |-> IF s[keep[k]] = "\r" THEN "\n" ELSE s[keep[k]]])

normalizeLineEndings(s) == join(split(toLF(s), "\n"), CRLF)

\* s.indexOf(sub): the first index where sub starts, 0 when absent
IndexOfSeq(s, sub) ==
    LET ok(i) == SubSeq(s, i, i + Len(sub) - 1) = sub
    IN  IF \E i \in 1..(Len(s) - Len(sub) + 1) : ok(i)
        THEN CHOOSE i \in 1..(Len(s) - Len(sub) + 1) : ok(i) /\ \A j \in 1..(i - 1) : ~ok(j)
        ELSE 0

endsWith(s, p) == Len(s) >= Len(p) /\ SubSeq(s, Len(s) - Len(p) + 1, Len(s)) = p

\* s.split(/\r\n/)
RECURSIVE splitCRLF(_)
splitCRLF(s) ==
    LET i == IndexOfSeq(s, CRLF)
    IN  IF i = 0 THEN <<s>>
        ELSE <<SubSeq(s, 1, i - 1)>> \o splitCRLF(SliceFrom(s, i + 2))

\* splitHeadersAndBody(normalizedText).headersRaw: the text up to the first
\* blank line, with the CRLF of its last header line
headersRawOf(normalizedText) ==
    With(IndexOfSeq(normalizedText, CRLF \o CRLF), LAMBDA idx :
        IF idx = 0 THEN normalizedText ELSE SubSeq(normalizedText, 1, idx + 1))

\* value.replace(/^[ \t]+|[ \t]+$/g, "")
trimWSP(s) ==
    IF \A i \in 1..Len(s) : s[i] \in WSP THEN << >>
    ELSE SubSeq(s,
                CHOOSE i \in 1..Len(s) : s[i] \notin WSP /\ \A j \in 1..(i - 1) : s[j] \in WSP,
                CHOOSE i \in 1..Len(s) : s[i] \notin WSP /\ \A j \in (i + 1)..Len(s) : s[j] \in WSP)

\* s.replace(/\s+/g, " ")
collapseWhiteSpace(s) ==
    With(SelectSeq([i \in 1..Len(s) |-> i],
                   LAMBDA i : s[i] \notin WhiteSpace \/ i = 1 \/ s[i - 1] \notin WhiteSpace),
         LAMBDA keep :
            [k \in 1..Len(keep) |-> IF s[keep[k]] \in WhiteSpace THEN " " ELSE s[keep[k]]])

\* s.replace(/\r\n[ \t]+/g, " "): a fold here needs the carriage return
isFoldCR(s, i) == s[i] = "\r" /\ i + 2 <= Len(s) /\ s[i + 1] = "\n" /\ s[i + 2] \in WSP

inFoldCRLF(s, j) ==
    \/ s[j] = "\n" /\ j > 1 /\ isFoldCR(s, j - 1)
    \/ s[j] \in WSP /\ \E i \in 1..(j - 2) :
          isFoldCR(s, i) /\ \A k \in (i + 2)..j : s[k] \in WSP

unfoldCRLF(s) ==
    With(SelectSeq([i \in 1..Len(s) |-> i], LAMBDA i : ~inFoldCRLF(s, i)),
         LAMBDA keep : [k \in 1..Len(keep) |-> IF isFoldCR(s, keep[k]) THEN " " ELSE s[keep[k]]])

\* One iteration of the loop of the parser's parseHeaders; st is
\* [headers, hasCurrent]; a header is [name, value, raw, index]
cliParseHeadersLine(st, line) ==
    IF line = << >> THEN st
    ELSE IF isContinuation(line)
    THEN IF st.hasCurrent
         THEN [st EXCEPT !.headers[Len(st.headers)] =
                            [@ EXCEPT !.raw = @ \o CRLF \o line,
                                      !.value = @ \o <<" ">> \o trim(line)]]
         ELSE st
    ELSE With(IndexOf(line, ":"), LAMBDA pos :
            [headers |-> Append(st.headers,
                            [name  |-> IF pos = 0 THEN << >> ELSE SubSeq(line, 1, pos - 1),
                             value |-> IF pos = 0 THEN line ELSE trim(SliceFrom(line, pos + 1)),
                             raw   |-> line \o CRLF,
                             index |-> Len(st.headers)]),
             hasCurrent |-> TRUE])

RECURSIVE cliParseHeadersLoop(_, _)
cliParseHeadersLoop(st, lines) ==
    IF lines = << >> THEN st
    ELSE cliParseHeadersLoop(cliParseHeadersLine(st, Head(lines)), Tail(lines))

\* parseHeaders(headersRaw) of the parser
cliParseHeaders(headersRaw) ==
    cliParseHeadersLoop([headers |-> << >>, hasCurrent |-> FALSE], splitCRLF(headersRaw)).headers

\* findDKIMSignatureHeaders(headersList)
findDKIMSignatureHeaders(headersList) ==
    SelectSeq(headersList, LAMBDA h : toLowerCase(h.name) = Str_dkim_signature)

\* unfoldDKIMValue(value)
unfoldDKIMValue(value) == trim(collapseWhiteSpace(unfoldCRLF(value)))

\* One piece of the value as the entry [k, v, flag]: flag for a piece
\* without "=", which the parser stores as tags[piece] = true
cliTagEntry(piece) ==
    With(IndexOf(piece, "="), LAMBDA eq :
        IF eq = 0 THEN [k |-> piece, v |-> << >>, flag |-> TRUE]
        ELSE With(trim(SliceFrom(piece, eq + 1)), LAMBDA val :
                [k |-> trim(SubSeq(piece, 1, eq - 1)),
                 v |-> IF Len(val) >= 1 /\ val[1] = "\"" /\ val[Len(val)] = "\""
                       THEN SubSeq(val, 2, Len(val) - 1) ELSE val,
                 flag |-> FALSE]))

cliTagEntries(v) ==
    With(split(v, ";"), LAMBDA pieces :
    With(SelectSeq([i \in 1..Len(pieces) |-> trim(pieces[i])], LAMBDA q : q # << >>),
         LAMBDA kept : [i \in 1..Len(kept) |-> cliTagEntry(kept[i])]))

\* tags[k]: the last entry of key k; absent gives "" (undefined is falsy)
cliTag(entries, k) ==
    LET hits == {i \in 1..Len(entries) : entries[i].k = k}
    IN  IF hits = {} THEN [k |-> k, v |-> << >>, flag |-> FALSE]
        ELSE entries[CHOOSE i \in hits : \A j \in hits : j <= i]

\* parseDKIMHeaderIntoTags(dkimHeader): [throws] when tags.h is true, which
\* has no split; else [raw, tags, hList]
parseDKIMHeaderIntoTags(dkimHeader) ==
    With(cliTagEntries(unfoldDKIMValue(dkimHeader.value)), LAMBDA tags :
        IF cliTag(tags, <<"h">>).flag THEN [throws |-> TRUE]
        ELSE [throws |-> FALSE, raw |-> dkimHeader.raw, tags |-> tags,
              hList |-> With(split(cliTag(tags, <<"h">>).v, ":"), LAMBDA hs :
                            SelectSeq([i \in 1..Len(hs) |-> trim(hs[i])],
                                      LAMBDA x : x # << >>))])

\* canonicalizeHeader(headerObj, headerMode)
canonicalizeHeader(headerObj, headerMode) ==
    IF toLowerCase(IF headerMode = << >> THEN <<"s","i","m","p","l","e">> ELSE headerMode)
          = <<"s","i","m","p","l","e">>
    THEN IF endsWith(headerObj.raw, CRLF) THEN headerObj.raw ELSE headerObj.raw \o CRLF
    ELSE toLowerCase(headerObj.name) \o <<":">>
            \o collapseWSP(trimWSP(unfoldCRLF(headerObj.value))) \o CRLF

\* (tags.c || "simple").split("/")[0] || "simple"
headerModeOf(c) ==
    With(split(IF c = << >> THEN <<"s","i","m","p","l","e">> ELSE c, "/")[1], LAMBDA m :
        IF m = << >> THEN <<"s","i","m","p","l","e">> ELSE m)

\* The least index from j on that holds no white space (Len(s) + 1 if none)
skipWhiteSpace(s, j) ==
    CHOOSE k \in j..(Len(s) + 1) :
        /\ k = Len(s) + 1 \/ s[k] \notin WhiteSpace
        /\ \A l \in j..(k - 1) : s[l] \in WhiteSpace

\* Whether \s*b\s*= matches from index j of s
bTagAt(s, j) ==
    With(skipWhiteSpace(s, j), LAMBDA k :
        /\ k <= Len(s) /\ toLowerChar(s[k]) = "b"
        /\ With(skipWhiteSpace(s, k + 1), LAMBDA m : m <= Len(s) /\ s[m] = "="))

\* s.replace(/(^|;)\s*b\s*=\s*([^;]*)/i, "$1b="): the first b tag, from the
\* start of the value or from a semicolon, loses its value and the white
\* space around its name
cliBlankB(s) ==
    With({j \in 1..(Len(s) + 1) : (j = 1 \/ s[j - 1] = ";") /\ bTagAt(s, j)}, LAMBDA starts :
        IF starts = {} THEN s
        ELSE With(CHOOSE j \in starts : \A l \in starts : j <= l, LAMBDA j :
             With(skipWhiteSpace(s, skipWhiteSpace(s, j) + 1), LAMBDA eq :
             With(IndexOf(SliceFrom(s, eq + 1), ";"), LAMBDA semi :
                SubSeq(s, 1, j - 1) \o <<"b", "=">>
                    \o (IF semi = 0 THEN << >> ELSE SliceFrom(s, eq + semi))))))

\* chosenDKIM.raw.replace(/^DKIM-Signature:\s*/i, "")
stripDkimName(raw) ==
    IF startsWith(toLowerCase(raw), Str_dkim_signature \o <<":">>)
    THEN SliceFrom(raw, skipWhiteSpace(raw, Len(Str_dkim_signature) + 2))
    ELSE raw

\* The synthetic DKIM-Signature header with b= emptied
fakeHeaderObj(chosenDKIM) ==
    With(cliBlankB(unfoldDKIMValue(stripDkimName(chosenDKIM.raw))), LAMBDA replaced :
        [name |-> Str_dkim_signature, value |-> replaced,
         raw |-> Str_dkim_signature \o <<":">> \o replaced \o CRLF, index |-> -1])

\* blockPieces of assembleCanonicalizedHeaderBlock(chosenDKIM, headersList)
blockPieces(chosenDKIM, headersList) ==
    With(headerModeOf(cliTag(chosenDKIM.tags, <<"c">>).v), LAMBDA headerMode :
    With(assembleLoop(headersList, chosenDKIM.hList, {}), LAMBDA found :
        [k \in 1..Len(found) |-> canonicalizeHeader(headersList[found[k]], headerMode)]
            \o <<canonicalizeHeader(fakeHeaderObj(chosenDKIM), headerMode)>>))

\* assembleCanonicalizedHeaderBlock(chosenDKIM, headersList): Null without a
\* signature, "throws" when tags.c is true, which has no split
assembleCanonicalizedHeaderBlock(chosenDKIM, headersList) ==
    IF chosenDKIM = Null THEN [throws |-> FALSE, isNull |-> TRUE, block |-> << >>]
    ELSE IF cliTag(chosenDKIM.tags, <<"c">>).flag
    THEN [throws |-> TRUE, isNull |-> FALSE, block |-> << >>]
    ELSE [throws |-> FALSE, isNull |-> FALSE,
          block |-> join(blockPieces(chosenDKIM, headersList), << >>)]

\* parseEmailRawBuffer(rawBuf), as far as the headers go: the header list,
\* the parsed DKIM-Signature headers, the chosen one (the first), and the
\* canonicalized header block
parseEmailRawBuffer(rawText) ==
    With(cliParseHeaders(headersRawOf(normalizeLineEndings(rawText))), LAMBDA headersList :
    With(findDKIMSignatureHeaders(headersList), LAMBDA dkimHeaders :
    With([i \in 1..Len(dkimHeaders) |-> parseDKIMHeaderIntoTags(dkimHeaders[i])],
         LAMBDA parsedDKIMs :
        IF \E i \in 1..Len(parsedDKIMs) : parsedDKIMs[i].throws
        THEN [throws |-> TRUE]
        ELSE With(IF parsedDKIMs # << >> THEN parsedDKIMs[1] ELSE Null, LAMBDA chosenDKIM :
             With(assembleCanonicalizedHeaderBlock(chosenDKIM, headersList), LAMBDA blk :
                IF blk.throws THEN [throws |-> TRUE]
                ELSE [throws |-> FALSE, headers |-> headersList, dkim |-> parsedDKIMs,
                      chosen |-> chosenDKIM, canonicalizedHeaderBlock |-> blk])))))

\* ------------------------------------------------------------------------
\* The header engine applied to header texts: parsing, canonicalization and
\* the signing input
\* ------------------------------------------------------------------------

\* The lines a message is made of: headers with plain and with padded
\* values, a continuation line, a line without a colon, a blank line
HeaderLines ==
    { <<"A",":"," ","1">>,
      <<"a",":"," "," ","2"," ","\t","3"," ">>,
      <<" ","\t","x"," "," ","y">>,
      <<"j","u","n","k">>,
      << >>,
      <<"B",":","4">> }

\* The DKIM-Signature headers: without c=; folded, with c=simple and an h=
\* that also names a header no message has; with white space around the "=" and
\* the ":" of its tags
SigBlocks ==
    { <<"D","K","I","M","-","S","i","g","n","a","t","u","r","e",":"," ","d","=","e",".","c",";"," ","s","=","s","1",";"," ","h","=","a",":","a",":","b",";"," ","b","h","=","Q","k","0","=",";"," ","b","=","Z","m","9","v">>,
      <<"D","K","I","M","-","S","i","g","n","a","t","u","r","e",":"," ","c","=","s","i","m","p","l","e","/","s","i","m","p","l","e",";"," ","d","=","e",".","c",";"," ","s","=","s","1",";"," ","h","=","x",":","a",";","\r","\n"," ","b","=","Z","m","\r","\n"," ","9","v",";"," ","b","h","=","Q","k","0","=">>,
      <<"D","K","I","M","-","S","i","g","n","a","t","u","r","e",":"," ","c","=","r","e","l","a","x","e","d","/","r","e","l","a","x","e","d",";"," ","d","=","e",".","c",";"," ","s","=","s","1",";"," ","h","=","A"," ",":"," ","B",";"," ","b","h","=","Q","k","0","=",";"," ","b"," ","="," ","Z","m","9","v">> }

\* The most lines a message holds after its DKIM-Signature header
MaxLines == 2

\* The text of a message: its DKIM-Signature header, then its lines
textOf(sig, lines) == join(<<sig>> \o lines, CRLF)

\* The signed data verifyHeadersOnly builds for headersText, when it finds a
\* DKIM-Signature header it can parse
signedDataOfText(headersText) ==
    With(parseHeaders(trim(headersText)), LAMBDA headers :
    With(parseDkimSignature(headers.rawDkim), LAMBDA dkim :
        IF dkim = Null THEN [found |-> FALSE, data |-> << >>]
        ELSE [found |-> TRUE,
              data |-> signedDataOf(headers.list, dkim.h, headers.rawDkim)]))

NotDone == [done |-> FALSE]

InitCanon ==
    /\ ServerInit
    /\ \E sig \in SigBlocks, lines \in SeqsUpTo(HeaderLines, MaxLines) :
          input = [sig |-> sig, lines |-> lines, text |-> textOf(sig, lines)]
    /\ output = [parsed |-> NotDone, signed |-> NotDone, cli |-> NotDone]

\* parseHeaders(raw) of dkim.ts is called as verifyHeadersOnly calls it
ParseHeaders ==
    /\ ~output.parsed.done
    /\ output' = [output EXCEPT !.parsed =
                     [done |-> TRUE, headers |-> parseHeaders(trim(input.text))]]
    /\ UNCHANGED <<serverVars, input>>

\* verifyHeadersOnly builds its signed data
BuildSignedData ==
    /\ ~output.signed.done
    /\ output' = [output EXCEPT !.signed =
                     [done |-> TRUE, res |-> signedDataOfText(input.text)]]
    /\ UNCHANGED <<serverVars, input>>

\* parseEmailRawBuffer of the command-line parser is called
ParseEmailRawBuffer ==
    /\ ~output.cli.done
    /\ output' = [output EXCEPT !.cli =
                     [done |-> TRUE, res |-> parseEmailRawBuffer(input.text)]]
    /\ UNCHANGED <<serverVars, input>>

NextCanon == ParseHeaders \/ BuildSignedData \/ ParseEmailRawBuffer

SpecCanon == InitCanon /\ [][NextCanon]_vars

\* ------------------------------------------------------------------------
\* C12
\* ------------------------------------------------------------------------

\* The signing input the specification describes for the canonical forms
\* `lines` of the selected headers and `last` of the DKIM-Signature header
\* (each without a line break): every selected header and its CRLF, then the
\* DKIM-Signature header without CRLF
signingInput(lines, last) == join([k \in 1..Len(lines) |-> lines[k] \o CRLF], << >>) \o last

withoutCRLF(line) == IF endsWith(line, CRLF) THEN SubSeq(line, 1, Len(line) - 2) ELSE line

\* The signed data of verifyHeadersOnly is the signing input of its selected
\* headers and DKIM-Signature header
signedDataAsSpecified ==
    output.signed.done /\ output.signed.res.found =>
        With(parseHeaders(trim(input.text)), LAMBDA headers :
        With(selectSignedHeaders(headers.list, parseDkimSignature(headers.rawDkim).h),
             LAMBDA selected :
            output.signed.res.data
                = signingInput([k \in 1..Len(selected) |-> relaxedHeader(selected[k])],
                               relaxedHeader(withEmptyB(headers.rawDkim)))))

\* The header block of the command-line parser is the signing input of its
\* selected headers and DKIM-Signature header
cliBlockAsSpecified ==
    output.cli.done /\ ~output.cli.res.throws /\ output.cli.res.chosen # Null =>
        With(blockPieces(output.cli.res.chosen, output.cli.res.headers), LAMBDA pieces :
            output.cli.res.canonicalizedHeaderBlock.block
                = signingInput([k \in 1..(Len(pieces) - 1) |-> withoutCRLF(pieces[k])],
                               withoutCRLF(pieces[Len(pieces)])))

\* C12: the signing input is the canonicalized selected headers, each ended
\* by CRLF, then the canonicalized DKIM-Signature header with b= blanked and
\* no CRLF after it; with no header selected it is that header alone, with
\* no CRLF before it.
C12_SigningInput == signedDataAsSpecified /\ cliBlockAsSpecified

\* ------------------------------------------------------------------------
\* C13
\* ------------------------------------------------------------------------

\* The tags of a DKIM-Signature value, in order, as [k, v] entries
tagsOfValue(v) == dkimTagEntries(<<":">> \o v)

\* The tags `after` are the tags `before`, with the value of b emptied
onlyBBlanked(before, after) ==
    /\ Len(after) = Len(before)
    /\ \A i \in 1..Len(before) :
          /\ after[i].k = before[i].k
          /\ after[i].v = IF before[i].k = <<"b">> THEN << >> ELSE before[i].v

\* The value of the last line of a signing input
lastLineValue(data) ==
    With(splitCRLF(withoutCRLF(data)), LAMBDA ls :
        SliceFrom(ls[Len(ls)], IndexOf(ls[Len(ls)], ":") + 1))

\* The DKIM-Signature line of the signed data of verifyHeadersOnly has the
\* tags of the header it found, with the value of b emptied
blankedInSignedData ==
    output.signed.done /\ output.signed.res.found =>
        With(parseHeaders(trim(input.text)).rawDkim, LAMBDA rawDkim :
            onlyBBlanked(
                tagsOfValue(collapseWSP(unfold(SliceFrom(rawDkim, IndexOf(rawDkim, ":") + 1)))),
                tagsOfValue(lastLineValue(output.signed.res.data))))

\* The same for the header block of the command-line parser
blankedInCliBlock ==
    output.cli.done /\ ~output.cli.res.throws /\ output.cli.res.chosen # Null =>
        onlyBBlanked(
            tagsOfValue(unfoldDKIMValue(stripDkimName(output.cli.res.chosen.raw))),
            tagsOfValue(lastLineValue(output.cli.res.canonicalizedHeaderBlock.block)))

\* C13: in the signing input the DKIM-Signature header has every tag of the
\* chosen header with its value, in order and with the semicolons between
\* them, except that the value of b is empty.
C13_OnlyBValueBlanked == blankedInSignedData /\ blankedInCliBlock

\* ------------------------------------------------------------------------
\* C14
\* ------------------------------------------------------------------------

\* The lines of a text up to its first blank line
RECURSIVE untilBlank(_)
untilBlank(lines) ==
    IF lines = << >> \/ Head(lines) = << >> THEN << >>
    ELSE <<Head(lines)>> \o untilBlank(Tail(lines))

\* The raw blocks of header lines: a line that is no continuation starts a
\* block, the continuation lines after it belong to it with their line breaks
RECURSIVE groupBlocks(_, _)
groupBlocks(blocks, lines) ==
    IF lines = << >> THEN blocks
    ELSE IF isContinuation(Head(lines)) /\ blocks # << >>
    THEN groupBlocks([blocks EXCEPT ![Len(blocks)] = @ \o CRLF \o Head(lines)], Tail(lines))
    ELSE groupBlocks(Append(blocks, Head(lines)), Tail(lines))

headerBlocks(text) == groupBlocks(<< >>, untilBlank(splitCRLF(text)))

\* The raw blocks that are headers: their first line holds a colon
colonBlocks(text) == SelectSeq(headerBlocks(text), LAMBDA b : IndexOf(b, ":") # 0)

\* The relaxed form of a raw block as the specification describes it: the
\* name in lower case, a colon, and the value with every fold replaced by a
\* space, runs of spaces and tabs collapsed and the ends trimmed
specRelaxed(block) ==
    With(IndexOf(block, ":"), LAMBDA idx :
        toLowerCase(SubSeq(block, 1, idx - 1)) \o <<":">>
            \o trimWSP(collapseWSP(unfoldCRLF(SliceFrom(block, idx + 1)))))

\* The header mode of a raw DKIM-Signature block: the part of its c= tag
\* before "/", "" without a c= tag
specHeaderMode(sig) ==
    toLowerCase(split(tagValue(tagsOfValue(unfoldCRLF(SliceFrom(sig, IndexOf(sig, ":") + 1))),
                               <<"c">>), "/")[1])

\* The canonical form, in the mode of sig, of a raw block
specCanon(sig, block) ==
    IF specHeaderMode(sig) = <<"s","i","m","p","l","e">> THEN block \o CRLF
    ELSE specRelaxed(block) \o CRLF

\* verifyHeadersOnly canonicalizes the headers it selects in the header mode
\* of c=
signedDataInMode ==
    output.signed.done /\ output.signed.res.found /\ specHeaderMode(input.sig) # << >> =>
        With(parseHeaders(trim(input.text)), LAMBDA headers :
        With(selectSignedIndices(headers.list, parseDkimSignature(headers.rawDkim).h),
             LAMBDA idx :
            idx # << >> =>
                startsWith(output.signed.res.data,
                           join([k \in 1..Len(idx) |->
                                    specCanon(input.sig, colonBlocks(input.text)[idx[k]])],
                                << >>))))

\* The command-line parser canonicalizes the headers it selects in the
\* header mode of c=
cliBlockInMode ==
    output.cli.done /\ ~output.cli.res.throws /\ output.cli.res.chosen # Null
            /\ specHeaderMode(input.sig) # << >> =>
        With(assembleLoop(output.cli.res.headers, output.cli.res.chosen.hList, {}),
             LAMBDA idx :
            startsWith(output.cli.res.canonicalizedHeaderBlock.block,
                       join([k \in 1..Len(idx) |->
                                specCanon(input.sig, headerBlocks(input.text)[idx[k]])],
                            << >>)))

\* C14: the selected headers are canonicalized in the header mode of the c=
\* tag: in mode simple each is its raw block, unchanged, and a CRLF; in mode
\* relaxed each is its relaxed form and a CRLF.
C14_ModeOfCTag == signedDataInMode /\ cliBlockInMode

\* ------------------------------------------------------------------------
\* C15
\* ------------------------------------------------------------------------

\* A line of the message continues a header
hasFold == \/ \E i \in 1..Len(input.lines) : isContinuation(input.lines[i])
           \/ includes(input.sig, CRLF)

\* C15: the relaxed form of every header that parseHeaders returns, folded
\* or not, is its name in lower case, a colon, and its value with every fold
\* replaced by one space, runs of spaces and tabs collapsed to one space and
\* the ends trimmed, so that a folded header has the form of the same header
\* written on one line.
C15_RelaxedForm ==
    output.parsed.done =>
        /\ Len(output.parsed.headers.list) = Len(colonBlocks(input.text))
        /\ \A i \in 1..Len(output.parsed.headers.list) :
              relaxedHeader(output.parsed.headers.list[i])
                  = specRelaxed(colonBlocks(input.text)[i])

\* ------------------------------------------------------------------------
\* C16
\* ------------------------------------------------------------------------

\* A line that is no continuation, is not blank and has no colon
hasNoColon(line) == line # << >> /\ ~isContinuation(line) /\ IndexOf(line, ":") = 0

\* The message without its lines that have no colon
textWithoutNoColon == textOf(input.sig, SelectSeq(input.lines, LAMBDA l : ~hasNoColon(l)))

\* The names of the headers of a text in the order of their lines, up to
\* the first blank line
namesInOrder(text) ==
    With(colonBlocks(text), LAMBDA bs :
        [i \in 1..Len(bs) |-> SubSeq(bs[i], 1, IndexOf(bs[i], ":") - 1)])

namesOf(list) == [i \in 1..Len(list) |-> list[i].name]

\* parseHeaders of dkim.ts: the headers in order up to the first blank line,
\* and the same result as for the message without its lines without a colon
parsedSkippingNoColon ==
    output.parsed.done =>
        /\ namesOf(output.parsed.headers.list) = namesInOrder(input.text)
        /\ With(parseHeaders(trim(textWithoutNoColon)), LAMBDA without :
              /\ output.parsed.headers.list = without.list
              /\ output.parsed.headers.rawDkim = without.rawDkim)

\* The same for the header list of the command-line parser
cliParsedSkippingNoColon ==
    output.cli.done /\ ~output.cli.res.throws =>
        /\ namesOf(output.cli.res.headers) = namesInOrder(input.text)
        /\ output.cli.res.headers = parseEmailRawBuffer(textWithoutNoColon).headers

\* C16: the parsers return the headers in the order of their lines and stop
\* at the first blank line; a line that is no continuation and has no colon
\* adds no header, and the result is that for the message without the line.
C16_NoColonSkipped == parsedSkippingNoColon /\ cliParsedSkippingNoColon

\* ------------------------------------------------------------------------
\* verifyHeadersOnly and the command-line parser on messages that carry
\* several DKIM-Signature headers
\* ------------------------------------------------------------------------

\* The DKIM-Signature headers a message can carry: the signature that E.C
\* made over the message (a=RSA-SHA256); a signature of o.c with rsa-sha256;
\* a signature of o.c with a=rsa-sha1; a header of e.c without b=
SigValid == dkimLine(0, "none")

SigOther == <<"D","K","I","M","-","S","i","g","n","a","t","u","r","e",":"," ","a","=","r","s","a","-","s","h","a","2","5","6",";"," ","d","=","o",".","c",";"," ","s","=","s","2",";"," ","h","=","f","r","o","m",";"," ","b","=","S","9">>

SigSha1 == <<"D","K","I","M","-","S","i","g","n","a","t","u","r","e",":"," ","a","=","r","s","a","-","s","h","a","1",";"," ","d","=","o",".","c",";"," ","s","=","s","3",";"," ","h","=","f","r","o","m",";"," ","b","=","S","9">>

SigNoB == <<"D","K","I","M","-","S","i","g","n","a","t","u","r","e",":"," ","a","=","r","s","a","-","s","h","a","2","5","6",";"," ","d","=","e",".","c",";"," ","s","=","s","4",";"," ","h","=","f","r","o","m">>

SigLines == {SigValid, SigOther, SigSha1, SigNoB}

\* A message carries at most this many DKIM-Signature headers
MaxSigs == 2

\* The domains a session can claim: "e.c", none
ClaimedDomains == {<<"e",".","c">>, << >>}

\* The header text: From, Subject, then the DKIM-Signature headers
sigText(sigs) ==
    join(<<Str_From_line, Str_Subject_colon \o baseSubject(0)>> \o sigs, CRLF)

\* The answers of the resolver by kind, for the name verifyHeadersOnly asks
AnswerKinds == {"throws", "nop", "key", "badkey", "timeout"}

answerOf(headersText, kind) ==
    With(parseDkimSignature(parseHeaders(trim(headersText)).rawDkim), LAMBDA dkim :
        CHOOSE a \in DnsAnswers(IF dkim = Null THEN << >> ELSE dkim.d) : a.kind = kind)

\* pc of output.verified: idle, dns (awaiting dns.resolveTxt), done
InitSig ==
    /\ ServerInit
    /\ \E sigs \in SeqsUpTo(SigLines, MaxSigs), claimed \in ClaimedDomains :
          /\ sigs # << >>
          /\ input = [sigs |-> sigs, claimed |-> claimed, text |-> sigText(sigs)]
    /\ output = [verified |-> [pc |-> "idle", kind |-> "none", res |-> NoV],
                 cli |-> NotDone]

\* verifyHeadersOnly(headersText) is called: it returns, or awaits the TXT lookup
VerifyHeadersOnlyCall ==
    /\ output.verified.pc = "idle"
    /\ output' = [output EXCEPT !.verified =
                     IF reachesDns(input.text)
                     THEN [pc |-> "dns", kind |-> "none", res |-> NoV]
                     ELSE [pc |-> "done", kind |-> "none",
                           res |-> verifyHeadersOnly(input.text,
                                                     answerOf(input.text, "throws"))]]
    /\ UNCHANGED <<serverVars, input>>

\* dns.resolveTxt returns to verifyHeadersOnly, which runs to its end
ResolveTxtReturn(kind) ==
    /\ output.verified.pc = "dns"
    /\ output' = [output EXCEPT !.verified =
                     [pc |-> "done", kind |-> kind,
                      res |-> verifyHeadersOnly(input.text, answerOf(input.text, kind))]]
    /\ UNCHANGED <<serverVars, input>>

NextSig ==
    \/ VerifyHeadersOnlyCall
    \/ \E kind \in AnswerKinds : ResolveTxtReturn(kind)
    \/ ParseEmailRawBuffer

SpecSig == InitSig /\ [][NextSig]_vars

\* ------------------------------------------------------------------------
\* C17
\* ------------------------------------------------------------------------

\* The DKIM-Signature headers of the message that carry d=, s=, a non-empty
\* h= and b=: their indices in input.sigs
completeSigs == {i \in 1..Len(input.sigs) : parseDkimSignature(input.sigs[i]) # Null}

\* C17: a DKIM-Signature header without one of the required tags is not
\* fatal: when the message carries another DKIM-Signature header with all of
\* them, verifyHeadersOnly does not fail with "no dkim-signature header".
C17_IncompleteNotFatal ==
    output.verified.pc = "done" /\ completeSigs # {}
        => output.verified.res.reason.text # "no dkim-signature header"

\* ------------------------------------------------------------------------
\* C18
\* ------------------------------------------------------------------------

minIndex(S) == CHOOSE i \in S : \A j \in S : i <= j

\* The policy: among the DKIM-Signature headers with all required tags, the
\* first whose d= is the claimed domain, else the first with a supported
\* algorithm, else the first; 0 when there is none
chosenByPolicy(sigs, claimed) ==
    LET dk(i) == parseDkimSignature(sigs[i])
        cands == {i \in 1..Len(sigs) : dk(i) # Null}
        ofDomain == {i \in cands : claimed # << >>
                                      /\ toLowerCase(dk(i).d) = toLowerCase(claimed)}
        supported == {i \in cands : toLowerCase(dk(i).a) = Str_rsa_sha256}
    IN  IF cands = {} THEN 0
        ELSE IF ofDomain # {} THEN minIndex(ofDomain)
        ELSE IF supported # {} THEN minIndex(supported)
        ELSE minIndex(cands)

\* The message with the header chosen by the policy as its only signature
textOfChosen ==
    sigText(<<input.sigs[chosenByPolicy(input.sigs, input.claimed)]>>)

\* verifyHeadersOnly returns what it returns for the chosen signature alone
verifiesChosen ==
    output.verified.pc = "done" /\ chosenByPolicy(input.sigs, input.claimed) # 0 =>
        \E kind \in AnswerKinds :
            /\ output.verified.kind # "none" => kind = output.verified.kind
            /\ output.verified.res
                  = verifyHeadersOnly(textOfChosen, answerOf(textOfChosen, kind))

\* The command-line parser chooses the signature of the policy
cliChoosesByPolicy ==
    output.cli.done /\ chosenByPolicy(input.sigs, input.claimed) # 0 =>
        /\ ~output.cli.res.throws
        /\ output.cli.res.chosen = parseEmailRawBuffer(textOfChosen).chosen

\* C18: of several DKIM-Signature headers the one verified is chosen by the
\* policy (d= equal to the claimed domain ignoring case, else a supported
\* algorithm, else the first with all required tags), not by position.
C18_ChosenByPolicy == verifiesChosen /\ cliChoosesByPolicy

\* ------------------------------------------------------------------------
\* C19
\* ------------------------------------------------------------------------

\* The signature verifyHeadersOnly examines: that of the first
\* DKIM-Signature header, Null when the header lacks a required tag
examinedSig == parseDkimSignature(input.sigs[1])

unsupportedAlgorithm(dkim) == dkim # Null /\ toLowerCase(dkim.a) # Str_rsa_sha256

\* C19: a signature whose a= is not rsa-sha256, compared ignoring case, fails
\* with the reason "unsupported a=" followed by the algorithm, and no TXT
\* lookup is made for it; a signature with rsa-sha256 in any case does not
\* fail with that reason and has its key looked up.
C19_UnsupportedAlgorithm ==
    /\ unsupportedAlgorithm(examinedSig) =>
          /\ output.verified.pc # "dns"
          /\ output.verified.pc = "done" =>
                /\ output.verified.kind = "none"
                /\ output.verified.res = Fail("unsupported a=", examinedSig.a)
    /\ examinedSig # Null /\ ~unsupportedAlgorithm(examinedSig)
          /\ output.verified.pc = "done" =>
                /\ output.verified.kind # "none"
                /\ output.verified.res.reason.text # "unsupported a="

\* A message whose first signature has a=rsa-sha1 was refused without lookup
C19_Witness ==
    /\ output.verified.pc = "done"
    /\ input.sigs[1] = SigSha1
    /\ output.verified.kind = "none"
    /\ output.verified.res.reason = Reason("unsupported a=", <<"r","s","a","-","s","h","a","1">>)

\* ------------------------------------------------------------------------
\* C20
\* ------------------------------------------------------------------------

\* The lookups that yield no usable key: no TXT record, a TXT record without
\* p=, a p= that is no key material
FailedLookups == {"throws", "nop", "badkey"}

\* C20: whichever way the key lookup fails, verifyHeadersOnly returns the
\* same result: the failure "dkim public key not found for" the key name,
\* which is also what it returns when there is no TXT record.
C20_SameKeyNotFound ==
    output.verified.pc = "done" /\ output.verified.kind \in FailedLookups =>
        /\ output.verified.res
              = Fail("dkim public key not found for ",
                     keyNameOf(examinedSig.s, examinedSig.d))
        /\ output.verified.res
              = verifyHeadersOnly(input.text, answerOf(input.text, "throws"))

\* ------------------------------------------------------------------------
\* One verification call, of either function, on the messages of InitSig
\* ------------------------------------------------------------------------

\* The raw message of the header text: a blank line and a body follow
rawOf(headersText) == headersText \o CRLF \o CRLF \o <<"h","i">>

InitCall ==
    /\ ServerInit
    /\ \E sigs \in SeqsUpTo(SigLines, MaxSigs), claimed \in ClaimedDomains :
          /\ sigs # << >>
          /\ input = [sigs |-> sigs, claimed |-> claimed, text |-> sigText(sigs)]
    /\ output = [verified |-> [pc |-> "idle", kind |-> "none", res |-> NoV],
                 raw |-> NotDone]

\* verifyHeadersOnly(input.text) is called
HeadersCall == ~output.raw.done /\ VerifyHeadersOnlyCall

\* verifyRawEmailWithLibrary(rawEmail) is called and the library returns
\* `out` or throws
VerifyRawEmailWithLibrary(out) ==
    /\ output.verified.pc = "idle"
    /\ ~output.raw.done
    /\ output' = [output EXCEPT !.raw =
                     [done |-> TRUE, threw |-> out.throws,
                      res |-> verifyRawEmailWithLibrary(rawOf(input.text), out)]]
    /\ UNCHANGED <<serverVars, input>>

NextCall ==
    \/ HeadersCall
    \/ \E kind \in AnswerKinds : ResolveTxtReturn(kind)
    \/ \E out \in LibraryOutputs(rawOf(input.text)) : VerifyRawEmailWithLibrary(out)

SpecCall == InitCall /\ [][NextCall]_vars

\* ------------------------------------------------------------------------
\* C21
\* ------------------------------------------------------------------------

\* v is an outcome value: ok:true with a domain, or ok:false with a reason
isOutcome(v) ==
    /\ DOMAIN v = DOMAIN NoV
    /\ v.ok \in BOOLEAN
    /\ v.ok => v.domain # << >> /\ v.reason = NoReason
    /\ ~v.ok => v.reason.text # ""

\* C21: verifyHeadersOnly and verifyRawEmailWithLibrary return an outcome
\* value for every input and never reject: a call that did not succeed, be
\* it for an invalid signature, a header without the required tags, a failed
\* lookup or a throw of the library, returns ok:false with a reason.
C21_FailuresAreOutcomes ==
    /\ output.verified.pc = "done" => isOutcome(output.verified.res)
    /\ output.raw.done => isOutcome(output.raw.res)

\* The library threw and the call returned ok:false with a reason
C21_Witness ==
    /\ output.raw.done
    /\ output.raw.threw
    /\ ~output.raw.res.ok
    /\ output.raw.res.reason.text # ""

\* ------------------------------------------------------------------------
\* C22
\* ------------------------------------------------------------------------

\* The reasons of the failures that say the message does not prove the domain
SemanticReasons ==
    {"dkim public key not found for ", "dkim signature invalid", "domain mismatch",
     "nonce not found in subject", "subject not signed by dkim"}

\* C22: when the TXT lookup fails because the resolver could not be reached
\* or timed out, the outcome is an internal error: its reason is none of the
\* reasons of the semantic failures, and it differs from the outcome for a
\* name that has no TXT record.
C22_TransportFailureDistinct ==
    output.verified.pc = "done" /\ output.verified.kind = "timeout" =>
        /\ output.verified.res.reason.text \notin SemanticReasons
        /\ output.verified.res
              # verifyHeadersOnly(input.text, answerOf(input.text, "throws"))

\* ------------------------------------------------------------------------
\* Two verification attempts for different sessions in one process
\* ------------------------------------------------------------------------

\* The sessions an earlier run of the server created at time 0 and wrote to
\* .data/sessions.json, both for "e.c"
EarlierIds == {2, 3}

EarlierSessions == {createSession(<<"e",".","c">>, id, <<"7","f">>, 0) : id \in EarlierIds}

\* The server has been started again: the file holds the earlier sessions,
\* the memory is empty and the load of module initialisation is pending
InitConc ==
    /\ now = 0
    /\ SESSIONS = {}
    /\ disk = EarlierSessions
    /\ persistPending = 0
    /\ writes = {}
    /\ initLoad = TRUE
    /\ nextId = 1
    /\ restarts = 1
    /\ req = IdleReq
    /\ created = EarlierSessions
    /\ okCount = [i \in SessionIds |-> 0]
    /\ MEM = EmptyStore
    /\ zkDisk = EmptyStore
    /\ zkSaves = 0
    /\ zkWrites = {}
    /\ zkInitLoad = TRUE
    /\ zkReq = IdleZkReq
    /\ other = IdleOther
    /\ badge = NotDeployed
    /\ deleted = {}
    /\ input = NoInput
    /\ output = NoOutput

\* The second request calls getSession(sid): up to its first await
OtherGetSession(sid) ==
    /\ other.pc = "idle"
    /\ LET M == pruneExpired(SESSIONS, now)
           found == mapGet(M, sid)
       IN  /\ SESSIONS' = M
           /\ other' = IF found # Null
                       THEN [pc |-> "done", sid |-> sid, session |-> found]
                       ELSE [pc |-> "load", sid |-> sid, session |-> Null]
    /\ UNCHANGED <<input, output, badge, deleted, zkVars, now, disk, persistPending, writes, initLoad,
                   nextId, restarts, req, created, okCount>>

\* The file read of loadFromDisk inside the second request's getSession completes
OtherLoadReturn(readOk) ==
    /\ other.pc = "load"
    /\ readOk \/ writes # {}
    /\ LET M == IF readOk THEN loadFromDisk(SESSIONS, disk, now) ELSE SESSIONS
       IN  /\ SESSIONS' = M
           /\ other' = [other EXCEPT !.pc = "done", !.session = mapGet(M, other.sid)]
    /\ UNCHANGED <<input, output, badge, deleted, zkVars, now, disk, persistPending, writes, initLoad,
                   nextId, restarts, req, created, okCount>>

\* The second request is answered
OtherRespond ==
    /\ other.pc = "done"
    /\ other' = IdleOther
    /\ UNCHANGED <<input, output, badge, deleted, zkVars, storeVars, now, req, okCount>>

\* The first request is for session 2 with the message E.C signed, on either
\* branch, and is made once; the second request is for session 3 and is
\* repeated.  The load of module initialisation stays pending.
ConcRequests == {<<path, 2, 0, "none">> : path \in {"raw", "headers"}}

NextConc ==
    \/ Tick
    \/ \E d \in ClaimInputs : PostSession(d)
    \/ PersistSnapshot
    \/ PersistWrite
    \/ \E r \in ConcRequests : VerifyStart(r[1], r[2], r[3], r[4])
    \/ /\ req.pc = "lib"
       /\ \E out \in libraryOutputs[<<req.n, req.t>>] : LibReturn(out)
    \/ \E readOk \in BOOLEAN : LoadReturn(readOk)
    \/ /\ req.pc = "dns"
       /\ \E a \in DnsAnswers(baseDomain(req.n)) : DnsReturn(a)
    \/ OtherGetSession(3)
    \/ \E readOk \in BOOLEAN : OtherLoadReturn(readOk)
    \/ OtherRespond

SpecConc == InitConc /\ [][NextConc]_vars

\* ------------------------------------------------------------------------
\* C23
\* ------------------------------------------------------------------------

\* C23: attempts for different sessions do not interfere: the first request
\* gets its session from getSession exactly when it would if it ran alone,
\* which is only while the file still holds the earlier sessions (alone, the
\* memory never holds session 2 before the request's own file read, and every
\* write replaces the file by sessions of this process).
C23_NoInterference ==
    [][req.session = Null /\ req'.session # Null => disk = EarlierSessions]_vars

\* ------------------------------------------------------------------------
\* POST /api/prove-secret
\* ------------------------------------------------------------------------

\* The position of c in the sequence seq, 0 when it is not there
posIn(seq, c) ==
    IF \E i \in 1..Len(seq) : seq[i] = c
    THEN CHOOSE i \in 1..Len(seq) : seq[i] = c /\ \A j \in 1..(i - 1) : seq[j] # c
    ELSE 0

\* /^(0x)?[0-9a-f]+$/.test(hex)
isHexString(hex) ==
    LET h == IF startsWith(hex, <<"0", "x">>) THEN SliceFrom(hex, 3) ELSE << >>
        allHex(x) == x # << >> /\ \A i \in 1..Len(x) : posIn(HexDigits, x[i]) > 0
    IN  allHex(hex) \/ allHex(h)

\* Buffer.from(h, "hex") of hex digits: the bytes of the full pairs
bytesOfHex(h) ==
    [i \in 1..(Len(h) \div 2) |->
        16 * (posIn(HexDigits, h[2 * i - 1]) - 1) + (posIn(HexDigits, h[2 * i]) - 1)]

Base64Chars ==
    UpperChars \o LowerChars \o <<"0","1","2","3","4","5","6","7","8","9","+","/">>

RECURSIVE pow(_, _)
pow(b, e) == IF e = 0 THEN 1 ELSE b * pow(b, e - 1)

RECURSIVE base64Number(_)
base64Number(vals) ==
    IF vals = << >> THEN 0
    ELSE base64Number(SubSeq(vals, 1, Len(vals) - 1)) * 64 + vals[Len(vals)]

\* Buffer.from(input, "base64"): the characters outside the alphabet are
\* left out, every character gives 6 bits, the full bytes are kept
bytesOfBase64(str) ==
    With(SelectSeq(str, LAMBDA c : posIn(Base64Chars, c) > 0), LAMBDA cs :
    With([i \in 1..Len(cs) |-> posIn(Base64Chars, cs[i]) - 1], LAMBDA vals :
        [j \in 1..((6 * Len(vals)) \div 8) |->
            (base64Number(vals) \div pow(2, 6 * Len(vals) - 8 * j)) % 256]))

\* normalizeSecret(input) of a string
normalizeSecret(str) ==
    With(toLowerCase(trim(str)), LAMBDA hex :
        IF isHexString(hex)
        THEN bytesOfHex(IF startsWith(hex, <<"0", "x">>) THEN SliceFrom(hex, 3) ELSE hex)
        ELSE bytesOfBase64(str))

\* The commitment is taken over this many bytes
PadLen == 64

\* pad64(buf)
pad64(buf) ==
    IF Len(buf) >= PadLen THEN SubSeq(buf, 1, PadLen)
    ELSE buf \o [i \in 1..(PadLen - Len(buf)) |-> 0]

\* "0x" + crypto.createHash("sha256").update(L).digest("hex"): the digest is
\* an injective function of L, kept as its argument
commitmentOf(L) == [prefix |-> <<"0", "x">>, sha256 |-> L]

\* process.env.ENFORCE_ZK: unset, "true", "false"
EnvValues == {<< >>, <<"t","r","u","e">>, <<"f","a","l","s","e">>}

\* The secret of the body: none, "0xAB", "abc" (hex digits, odd), "hi!"
Secrets == {<< >>, <<"0","x","A","B">>, <<"a","b","c">>, <<"h","i","!">>}

\* crypto.randomBytes(32).toString("hex")
RandomSecrets == {[i \in 1..PadLen |-> "0"], [i \in 1..PadLen |-> "f"]}

ProveResponse(status, error, ok, hHex, verified, secretProvided) ==
    [status |-> status, error |-> error, ok |-> ok, hHex |-> hHex,
     verified |-> verified, secretProvided |-> secretProvided]

\* The hHex of the enforcing branch: that of the body, else that of the two
\* public signals of an array, else undefined
proveHHex(body) ==
    IF body.hHex # << >> THEN body.hHex
    ELSE IF body.signals = "array" THEN hHexOfSignals(ProofSignals)
    ELSE << >>

\* POST(req) for ENFORCE_ZK = env and the body, given whether a verification
\* key is found, what snark.groth16.verify yields and what randomBytes yields
proveSecret(env, body, vkFound, verifyOk, rnd) ==
    IF env # <<"f","a","l","s","e">>
    THEN IF body.proof = "absent" \/ body.signals = "absent"
         THEN ProveResponse(400, "ENFORCE_ZK=true: provide {proof, publicSignals}",
                            FALSE, << >>, FALSE, FALSE)
         ELSE IF ~vkFound
         THEN ProveResponse(500, "verification key not found at", FALSE, << >>, FALSE, FALSE)
         ELSE IF ~(verifyOk /\ body.proof = "valid")
         THEN ProveResponse(400, "invalid ZK proof", FALSE, << >>, FALSE, FALSE)
         ELSE ProveResponse(200, "", TRUE, proveHHex(body), TRUE, FALSE)
    ELSE ProveResponse(200, "", FALSE,
                       commitmentOf(pad64(normalizeSecret(
                           IF body.secret # << >> THEN body.secret ELSE rnd))),
                       FALSE, body.secret # << >>)

InitProve ==
    /\ ServerInit
    /\ \E env \in EnvValues, secret \in Secrets, proof \in ProofKinds,
          signals \in SignalKinds, hHex \in BodyHHex :
          input = [env |-> env,
                   body |-> [secret |-> secret, proof |-> proof, signals |-> signals,
                             hHex |-> hHex]]
    /\ output = NotDone

\* POST /api/prove-secret is handled
PostProveSecret(vkFound, verifyOk, rnd) ==
    /\ ~output.done
    /\ output' = [done |-> TRUE,
                  res |-> proveSecret(input.env, input.body, vkFound, verifyOk, rnd)]
    /\ UNCHANGED <<serverVars, input>>

NextProve ==
    \E vkFound \in BOOLEAN, verifyOk \in BOOLEAN, rnd \in RandomSecrets :
        PostProveSecret(vkFound, verifyOk, rnd)

SpecProve == InitProve /\ [][NextProve]_vars

\* ------------------------------------------------------------------------
\* C24
\* ------------------------------------------------------------------------

\* C24: with ENFORCE_ZK unset the route asks for no proof and answers with
\* the commitment of the secret; it asks for {proof, publicSignals} only
\* when ENFORCE_ZK is "true".
C24_EnforcementOffByDefault ==
    output.done =>
        /\ input.env = << >> /\ input.body.secret # << >> =>
              /\ output.res.status = 200
              /\ output.res.hHex
                    = commitmentOf(pad64(normalizeSecret(input.body.secret)))
        /\ input.env # <<"t","r","u","e">> =>
              output.res.error # "ENFORCE_ZK=true: provide {proof, publicSignals}"

\* ------------------------------------------------------------------------
\* DomainBadge.sol: the soulbound ERC-1155 badge contract
\* ------------------------------------------------------------------------

\* the latest block.timestamp the model reaches
MaxBlockTime == 1

\* address(0)
ZeroAddress == "0x0"

\* the accounts that hold badges and send transactions
Wallets == {"alice", "bob"}

\* the account that deployed the contract
Owner == "owner"

\* the backend keys that sign mint authorizations
Issuers == {"issuerA", "issuerB"}

\* what ECDSA.recover makes of a signature: the key that signed this very
\* authorization, or a revert for a signature that is malformed
Signatures == Issuers \cup {"malformed"}

\* keccak256 of a lower-cased domain
DomainHashes == {1, 2}

AuthNonces == {1, 2}

\* the expiry of an authorization: already past at every block, or not
Expiries == {-1, MaxBlockTime}

\* bytes32(0), and a commitment
NoCommit == "0x00"

Commits == {"0xh"}

\* the authorizations presented: for alice any domain and nonce, for bob and
\* for address(0) the first domain and nonce
MintAuths ==
    {auth \in [wallet : Wallets \cup {ZeroAddress}, domainHash : DomainHashes,
               hCommit : Commits, nonce : AuthNonces, expiresAt : Expiries] :
        auth.wallet # "alice" => auth.domainHash = 1 /\ auth.nonce = 1}

\* tokenIdOf(domainHash): uint256(domainHash)
tokenIdOf(domainHash) == domainHash

Holders == (Wallets \cup {Owner}) \X DomainHashes

\* the storage after the constructor, in a block of time 0
Constructed(issuer_) ==
    [deployed |-> TRUE,
     owner |-> Owner,
     issuer |-> issuer_,
     paused |-> FALSE,
     nonceUsed |-> {},
     balance |-> [x \in Holders |-> 0],
     hCommitOf |-> [x \in Holders |-> NoCommit],
     timestamp |-> 0]

balanceOf(c, wallet, tokenId) == c.balance[<<wallet, tokenId>>]

\* a transaction that reverted leaves the storage as it was
Reverted(c, reason) == [c |-> c, reverted |-> TRUE, reason |-> reason]

Succeeded(c) == [c |-> c, reverted |-> FALSE, reason |-> ""]

\* ERC1155._mint(to, id, 1): the balance is raised, then a receiving
\* contract is asked to accept
mint(c, to, tokenId, accepted) ==
    IF ~accepted
    THEN Reverted(c, "ERC1155InvalidReceiver")
    ELSE Succeeded([c EXCEPT !.balance[<<to, tokenId>>] = @ + 1])

\* ERC1155._burn(from, id, 1)
burn(c, from, tokenId) ==
    IF balanceOf(c, from, tokenId) < 1
    THEN Reverted(c, "ERC1155InsufficientBalance")
    ELSE Succeeded([c EXCEPT !.balance[<<from, tokenId>>] = @ - 1])

\* setIssuer(newIssuer), onlyOwner
setIssuer(c, sender, newIssuer) ==
    IF sender # c.owner THEN Reverted(c, "OwnableUnauthorizedAccount")
    ELSE IF newIssuer = ZeroAddress THEN Reverted(c, "issuer=0")
    ELSE Succeeded([c EXCEPT !.issuer = newIssuer])

\* pause(), onlyOwner
pause(c, sender) ==
    IF sender # c.owner THEN Reverted(c, "OwnableUnauthorizedAccount")
    ELSE IF c.paused THEN Reverted(c, "EnforcedPause")
    ELSE Succeeded([c EXCEPT !.paused = TRUE])

\* unpause(), onlyOwner
unpause(c, sender) ==
    IF sender # c.owner THEN Reverted(c, "OwnableUnauthorizedAccount")
    ELSE IF ~c.paused THEN Reverted(c, "ExpectedPause")
    ELSE Succeeded([c EXCEPT !.paused = FALSE])

\* mintWithAuth without the check of the balance: a plausible slip
mintWithAuthAlwaysMints(c, auth, signature, accepted) ==
    IF c.paused THEN Reverted(c, "EnforcedPause")
    ELSE IF ~(c.timestamp <= auth.expiresAt) THEN Reverted(c, "auth expired")
    ELSE IF auth.wallet = ZeroAddress THEN Reverted(c, "bad wallet")
    ELSE IF signature = "malformed" THEN Reverted(c, "ECDSAInvalidSignature")
    ELSE IF signature # c.issuer THEN Reverted(c, "bad issuer sig")
    ELSE IF <<auth.wallet, auth.nonce>> \in c.nonceUsed THEN Reverted(c, "nonce used")
    ELSE With([c EXCEPT !.nonceUsed = @ \cup {<<auth.wallet, auth.nonce>>}], LAMBDA c1 :
         With(mint(c1, auth.wallet, tokenIdOf(auth.domainHash), accepted), LAMBDA m :
         IF m.reverted THEN Reverted(c, m.reason)
         ELSE Succeeded([m.c EXCEPT
                  !.hCommitOf[<<auth.wallet, tokenIdOf(auth.domainHash)>>] = auth.hCommit])))

\* mintWithAuth without the check of the nonce: a plausible slip
mintWithAuthIgnoresNonce(c, auth, signature, accepted) ==
    IF c.paused THEN Reverted(c, "EnforcedPause")
    ELSE IF ~(c.timestamp <= auth.expiresAt) THEN Reverted(c, "auth expired")
    ELSE IF auth.wallet = ZeroAddress THEN Reverted(c, "bad wallet")
    ELSE IF signature = "malformed" THEN Reverted(c, "ECDSAInvalidSignature")
    ELSE IF signature # c.issuer THEN Reverted(c, "bad issuer sig")
    ELSE With([c EXCEPT !.nonceUsed = @ \cup {<<auth.wallet, auth.nonce>>}], LAMBDA c1 :
         With(IF balanceOf(c1, auth.wallet, tokenIdOf(auth.domainHash)) = 0
              THEN mint(c1, auth.wallet, tokenIdOf(auth.domainHash), accepted)
              ELSE Succeeded(c1), LAMBDA m :
         IF m.reverted THEN Reverted(c, m.reason)
         ELSE Succeeded([m.c EXCEPT
                  !.hCommitOf[<<auth.wallet, tokenIdOf(auth.domainHash)>>] = auth.hCommit])))

\* mintWithAuth(auth, signature), whenNotPaused. signature is the key that
\* ECDSA.recover finds for the digest of auth; accepted is whether the
\* receiver of a mint accepts the token
mintWithAuth(c, auth, signature, accepted) ==
    IF c.paused THEN Reverted(c, "EnforcedPause")
    ELSE IF ~(c.timestamp <= auth.expiresAt) THEN Reverted(c, "auth expired")
    ELSE IF auth.wallet = ZeroAddress THEN Reverted(c, "bad wallet")
    ELSE IF signature = "malformed" THEN Reverted(c, "ECDSAInvalidSignature")
    ELSE IF signature # c.issuer THEN Reverted(c, "bad issuer sig")
    ELSE IF <<auth.wallet, auth.nonce>> \in c.nonceUsed THEN Reverted(c, "nonce used")
    ELSE With([c EXCEPT !.nonceUsed = @ \cup {<<auth.wallet, auth.nonce>>}], LAMBDA c1 :
         With(IF balanceOf(c1, auth.wallet, tokenIdOf(auth.domainHash)) = 0
              THEN mint(c1, auth.wallet, tokenIdOf(auth.domainHash), accepted)
              ELSE Succeeded(c1), LAMBDA m :
         IF m.reverted THEN Reverted(c, m.reason)
         ELSE Succeeded([m.c EXCEPT
                  !.hCommitOf[<<auth.wallet, tokenIdOf(auth.domainHash)>>] = auth.hCommit])))

\* revoke(domainHash), whenNotPaused: the holder burns its own badge
revoke(c, sender, domainHash) ==
    IF c.paused THEN Reverted(c, "EnforcedPause")
    ELSE IF ~(balanceOf(c, sender, tokenIdOf(domainHash)) > 0) THEN Reverted(c, "no badge")
    ELSE With(burn(c, sender, tokenIdOf(domainHash)), LAMBDA b :
         IF b.reverted THEN Reverted(c, b.reason)
         ELSE Succeeded([b.c EXCEPT
                  !.hCommitOf[<<sender, tokenIdOf(domainHash)>>] = NoCommit]))

\* revokeFor(wallet, domainHash), onlyOwner
revokeFor(c, sender, wallet, domainHash) ==
    IF sender # c.owner THEN Reverted(c, "OwnableUnauthorizedAccount")
    ELSE IF ~(balanceOf(c, wallet, tokenIdOf(domainHash)) > 0) THEN Reverted(c, "no badge")
    ELSE With(burn(c, wallet, tokenIdOf(domainHash)), LAMBDA b :
         IF b.reverted THEN Reverted(c, b.reason)
         ELSE Succeeded([b.c EXCEPT
                  !.hCommitOf[<<wallet, tokenIdOf(domainHash)>>] = NoCommit]))

\* setApprovalForAll(operator, approved): pure, reverts
setApprovalForAll(c) == Reverted(c, "SBT: approvals disabled")

\* safeTransferFrom(from, to, id, amount, data): pure, reverts
safeTransferFrom(c) == Reverted(c, "SBT: non-transferable")

\* safeBatchTransferFrom(from, to, ids, amounts, data): pure, reverts
safeBatchTransferFrom(c) == Reverted(c, "SBT: non-transferable")

\* what is known of the last transaction: the function called, the wallet,
\* token and nonce it names, the signature and expiry of a mint
\* authorization, and how it ended
Receipt(fn, wallet, tokenId, nonce, signature, expiresAt, r) ==
    [fn |-> fn, wallet |-> wallet, tokenId |-> tokenId,
     nonce |-> nonce, signature |-> signature, expiresAt |-> expiresAt,
     reverted |-> r.reverted, reason |-> r.reason]

NoReceipt == [fn |-> "none", reverted |-> FALSE, reason |-> ""]

InitBadge ==
    /\ BackendInit
    /\ \E issuer_ \in Issuers : badge = Constructed(issuer_)
    /\ input = NoInput
    /\ output = NoReceipt

Senders == Wallets \cup {Owner}

\* a transaction ends: the storage is what it left, the receipt tells how
Transact(r, receipt) ==
    /\ badge' = r.c
    /\ output' = receipt
    /\ UNCHANGED <<now, SESSIONS, disk, persistPending, writes, initLoad, nextId, restarts,
                   req, created, okCount, zkVars, other, deleted, input>>

\* a later block is mined
Mine ==
    /\ badge.timestamp < MaxBlockTime
    /\ badge' = [badge EXCEPT !.timestamp = @ + 1]
    /\ output' = NoReceipt
    /\ UNCHANGED <<now, SESSIONS, disk, persistPending, writes, initLoad, nextId, restarts,
                   req, created, okCount, zkVars, other, deleted, input>>

\* any account sends mintWithAuth(auth, signature)
MintWithAuth(auth, signature, accepted) ==
    Transact(mintWithAuth(badge, auth, signature, accepted),
             Receipt("mintWithAuth", auth.wallet, tokenIdOf(auth.domainHash),
                     auth.nonce, signature, auth.expiresAt,
                     mintWithAuth(badge, auth, signature, accepted)))

Revoke(sender, domainHash) ==
    Transact(revoke(badge, sender, domainHash),
             Receipt("revoke", sender, tokenIdOf(domainHash), 0, "", 0,
                     revoke(badge, sender, domainHash)))

RevokeFor(sender, wallet, domainHash) ==
    Transact(revokeFor(badge, sender, wallet, domainHash),
             Receipt("revokeFor", wallet, tokenIdOf(domainHash), 0, "", 0,
                     revokeFor(badge, sender, wallet, domainHash)))

SetIssuer(sender, newIssuer) ==
    Transact(setIssuer(badge, sender, newIssuer),
             Receipt("setIssuer", newIssuer, 0, 0, "", 0,
                     setIssuer(badge, sender, newIssuer)))

Pause(sender) ==
    Transact(pause(badge, sender),
             Receipt("pause", sender, 0, 0, "", 0, pause(badge, sender)))

Unpause(sender) ==
    Transact(unpause(badge, sender),
             Receipt("unpause", sender, 0, 0, "", 0, unpause(badge, sender)))

\* the holder from tries to approve, or to move its token to another wallet
SetApprovalForAll(from) ==
    Transact(setApprovalForAll(badge),
             Receipt("setApprovalForAll", from, 0, 0, "", 0, setApprovalForAll(badge)))

SafeTransferFrom(from, id) ==
    Transact(safeTransferFrom(badge),
             Receipt("safeTransferFrom", from, id, 0, "", 0, safeTransferFrom(badge)))

SafeBatchTransferFrom(from, id) ==
    Transact(safeBatchTransferFrom(badge),
             Receipt("safeBatchTransferFrom", from, id, 0, "", 0,
                     safeBatchTransferFrom(badge)))

NextBadge ==
    \/ Mine
    \/ \E auth \in MintAuths, signature \in Signatures, accepted \in BOOLEAN :
          MintWithAuth(auth, signature, accepted)
    \/ \E sender \in Senders, domainHash \in DomainHashes : Revoke(sender, domainHash)
    \/ \E sender \in {"alice", Owner}, wallet \in Wallets, domainHash \in DomainHashes :
          RevokeFor(sender, wallet, domainHash)
    \/ \E sender \in {"alice", Owner}, newIssuer \in Issuers \cup {ZeroAddress} :
          SetIssuer(sender, newIssuer)
    \/ \E sender \in {"alice", Owner} : Pause(sender)
    \/ \E sender \in {"alice", Owner} : Unpause(sender)
    \/ \E from \in Wallets : SetApprovalForAll(from)
    \/ \E from \in Wallets, id \in DomainHashes : SafeTransferFrom(from, id)
    \/ \E from \in Wallets, id \in DomainHashes : SafeBatchTransferFrom(from, id)

SpecBadge == InitBadge /\ [][NextBadge]_vars

\* ------------------------------------------------------------------------
\* C25
\* ------------------------------------------------------------------------

\* the holdings whose balance a step changes
changedBalances == {x \in Holders : badge'.balance[x] # badge.balance[x]}

replayed == 
    /\ output'.fn = "mintWithAuth"
    /\ <<output'.wallet, output'.nonce>> \in badge.nonceUsed

\* nonceUsed changes only by a successful mintWithAuth that carries the
\* issuer's signature, has not expired and finds the contract not paused,
\* and then gains the pair of that authorization
nonceSetOnlyByMint ==
    badge'.nonceUsed # badge.nonceUsed =>
        /\ output'.fn = "mintWithAuth"
        /\ ~output'.reverted
        /\ output'.signature = badge.issuer
        /\ badge.timestamp <= output'.expiresAt
        /\ ~badge.paused
        /\ badge'.nonceUsed = badge.nonceUsed \cup {<<output'.wallet, output'.nonce>>}

DeleteSession(id) ==
    /\ id < nextId
    /\ other.pc = "idle"
    /\ persistPending < MaxPending
    /\ SESSIONS' = deleteSession(SESSIONS, id)
    /\ persistPending' = persistPending + 1
    /\ deleted' = deleted \cup {id}
    /\ UNCHANGED <<input, output, other, badge, zkVars, now, disk, writes, initLoad,
                   nextId, restarts, req, created, okCount>>

NextDelete ==
    \/ Tick
    \/ \E d \in ClaimInputs : PostSession(d)
    \/ PersistSnapshot
    \/ PersistWrite
    \/ InitLoadReturn
    \/ \E id \in SessionIds : DeleteSession(id)
    \/ \E sid \in SessionIds : OtherGetSession(sid)
    \/ \E readOk \in BOOLEAN : OtherLoadReturn(readOk)
    \/ OtherRespond

SpecDelete == Init /\ [][NextDelete]_vars

\* ------------------------------------------------------------------------
\* C27
\* ------------------------------------------------------------------------

\* C27: a getSession(id) called after deleteSession(id) has returned does
\* not return the session, whatever persistToDisk and loadFromDisk do.
C27_DeletedStaysDeleted ==
    other.pc = "done" /\ other.sid \in deleted => other.session = Null

\* ------------------------------------------------------------------------
\* C28
\* ------------------------------------------------------------------------

\* the commitments of the store M, each with its domain
commitmentsOf(M) ==
    UNION {{<<d, M[d][i]>> : i \in 1..Len(M[d])} : d \in DOMAIN M}

\* no list of M holds a commitment twice
noDuplicates(M) ==
    \A d \in DOMAIN M : \A i, j \in 1..Len(M[d]) : M[d][i] = M[d][j] => i = j

\* C28: a commitment that addZKUser has put in the store is found by
\* hasZKUser ever after, whatever loadZKStore and saveZKStore do, and no
\* list of the store holds a commitment twice.
C28_CommitmentKept ==
    [][/\ \A c \in commitmentsOf(MEM) : hasZKUser(MEM', c[1], c[2])
       /\ noDuplicates(MEM')]_vars

\* ------------------------------------------------------------------------
\* POST /api/login-zk, and register-zk with every body
\* ------------------------------------------------------------------------

\* what POST /api/login-zk answered, and the hHex it gave to hasZKUser, if
\* it came to that
LoginResponse(status, ok, error, looked, hHex) ==
    [status |-> status, ok |-> ok, error |-> error, looked |-> looked, hHex |-> hHex]

NoLogin == LoginResponse(0, FALSE, "", FALSE, << >>)

\* the handler of login-zk for the body r, with getVerificationKey finding
\* the key or not and the child process yielding result
loginZk(M, r, vkFound, result) ==
    IF r.domain = << >> \/ r.proof = "absent" \/ r.signals = "absent"
    THEN LoginResponse(400, FALSE, "domain, proof, publicSignals required", FALSE, << >>)
    ELSE IF ~vkFound THEN LoginResponse(500, FALSE, "vkey", FALSE, << >>)
    ELSE IF result = "timeout"
    THEN LoginResponse(504, FALSE, "verification timeout", FALSE, << >>)
    ELSE IF result = "false"
    THEN LoginResponse(400, FALSE, "invalid ZK proof", FALSE, << >>)
    ELSE IF derivedHHex(r) = << >>
    THEN LoginResponse(400, FALSE, "cannot derive hHex from publicSignals; provide hHex",
                       FALSE, << >>)
    ELSE IF ~hasZKUser(M, r.domain, derivedHHex(r))
    THEN LoginResponse(403, FALSE, "no ZK registration for this domain/secret",
                       TRUE, derivedHHex(r))
    ELSE LoginResponse(200, TRUE, "", TRUE, derivedHHex(r))

\* POST /api/login-zk is handled; nothing of the store is read before the
\* child process has exited
LoginZk(domainInput, proof, signals, body, vkFound, result) ==
    LET r == [IdleZkReq EXCEPT !.domain = toLowerCase(domainInput), !.proof = proof,
                               !.signals = signals, !.body = body]
        resp == loginZk(MEM, r, vkFound, result)
    IN  /\ result \in VerifyResults(r)
        /\ output' = resp
        /\ IF resp.ok
           THEN /\ nextId <= MaxSessions
                /\ persistPending < MaxPending
                /\ \E nonce \in Nonces :
                     /\ SESSIONS' = mapSet(SESSIONS, createSession(r.domain, nextId, nonce, now))
                     /\ created' = created \cup {createSession(r.domain, nextId, nonce, now)}
                /\ persistPending' = persistPending + 1
                /\ nextId' = nextId + 1
           ELSE UNCHANGED <<SESSIONS, created, persistPending, nextId>>
        /\ UNCHANGED <<input, other, badge, deleted, zkVars, now, disk, writes, initLoad,
                       restarts, req, okCount>>

\* The bodies sent to register-zk, for domain "E.c" and with a valid proof:
\* publicSignals an array or an object that is no array, without hHex or
\* with a well-formed hHex that is not the commitment of the proof; and a
\* body without publicSignals
HHexBodies ==
    {<<<<"E",".","c">>, "valid", sg, h>> :
        sg \in {"array", "arrayLike"}, h \in {b \in BodyHHex : b = << >> \/ isHHex(b)}}
        \cup {<<<<"E",".","c">>, "valid", "absent", << >>>>}

\* The logins: those bodies with a proof that verifies; and one login for
\* each way to fail before
LoginInputs ==
    {<<i[1], i[2], i[3], i[4], TRUE, "true">> : i \in HHexBodies}
        \cup {<<<<"E",".","c">>, "valid", "array", << >>, FALSE, "true">>,
              <<<<"E",".","c">>, "invalid", "array", << >>, TRUE, "false">>,
              <<<<"E",".","c">>, "valid", "array", << >>, TRUE, "timeout">>}

InitHHex == ServerInit /\ input = NoInput /\ output = NoLogin

\* register-zk and login-zk; the files of the stores play no part
NextHHex ==
    \/ \E i \in HHexBodies : RegisterStart(i[1], i[2], i[3], i[4])
    \/ \E found \in BOOLEAN : VkReturn(found)
    \/ \E result \in {"true", "false", "timeout"} : VerifyReturn(result)
    \/ ZkRespond
    \/ ZkSaveSnapshot
    \/ \E i \in LoginInputs : LoginZk(i[1], i[2], i[3], i[4], i[5], i[6])

SpecHHex == InitHHex /\ [][NextHHex]_vars

\* ------------------------------------------------------------------------
\* C29
\* ------------------------------------------------------------------------

\* C29: the hHex that register-zk stores and that login-zk looks up is the
\* one the public signals [h_hi, h_lo] of the verified proof encode.
C29_HHexFromSignals ==
    /\ \A c \in commitmentsOf(MEM) : c[2] = hHexOfSignals(ProofSignals)
    /\ zkReq.pc = "done" /\ zkReq.out.ok => zkReq.out.hHex = hHexOfSignals(ProofSignals)
    /\ output.looked => output.hHex = hHexOfSignals(ProofSignals)

\* ------------------------------------------------------------------------
\* The headers-only branch on messages with a second Subject header
\* ------------------------------------------------------------------------

\* the Subject lines spliced into a delivered message: one that holds the
\* nonce, one that does not
ExtraSubjects ==
    {Str_spliced_subject, <<"S","U","B","J","E","C","T",":"," ","h","i">>}

\* the header lines of base message n with the line extra put after the
\* first pos of them
splicedText(n, extra, pos) ==
    With(<<Str_From_line, Str_Subject_colon \o baseSubject(n), dkimLine(n, "none")>>,
         LAMBDA lines :
            join(SubSeq(lines, 1, pos) \o <<extra>> \o SubSeq(lines, pos + 1, Len(lines)), CRLF))

\* the session of the attempt: for the signing domain in lower case
sessionFor(n) == createSession(toLowerCase(baseDomain(n)), 1, <<"7","f">>, 0)

InitSubject ==
    /\ ServerInit
    /\ \E n \in BaseIds, extra \in ExtraSubjects, pos \in 0..3 :
          input = [n |-> n, text |-> splicedText(n, extra, pos), session |-> sessionFor(n)]
    /\ output = [pc |-> "idle"]

\* the route after verifyHeadersOnly has returned v
headersBranch(v, session) ==
    [pc |-> "done", v |-> v, resp |-> bindingChecksHeaders(v, session)]

\* the route calls verifyHeadersOnly(headersText), which returns or awaits
\* the TXT lookup
HeadersBranchStart ==
    /\ output.pc = "idle"
    /\ output' = IF reachesDns(input.text)
                 THEN [pc |-> "dns"]
                 ELSE headersBranch(verifyHeadersOnly(input.text,
                                                      answerOf(input.text, "throws")),
                                    input.session)
    /\ UNCHANGED <<serverVars, input>>

\* dns.resolveTxt returns, verifyHeadersOnly and the route run to the end
HeadersBranchDns(kind) ==
    /\ output.pc = "dns"
    /\ output' = headersBranch(verifyHeadersOnly(input.text, answerOf(input.text, kind)),
                               input.session)
    /\ UNCHANGED <<serverVars, input>>

NextSubject ==
    \/ HeadersBranchStart
    \/ \E kind \in AnswerKinds : HeadersBranchDns(kind)

SpecSubject == InitSubject /\ [][NextSubject]_vars

\* ------------------------------------------------------------------------
\* C30
\* ------------------------------------------------------------------------

\* the header list and the h= list that verifyHeadersOnly works with
listOfText(headersText) == parseHeaders(trim(headersText)).list

hOfText(headersText) ==
    parseDkimSignature(parseHeaders(trim(headersText)).rawDkim).h

\* the value tested is that of the rightmost Subject of list, and
\* selectSignedHeaders selects that occurrence for h=
testedIsSigned(list, hList, tested) ==
    With(indicesByName(list, Str_subject), LAMBDA arr :
    With(selectSignedIndices(list, hList), LAMBDA sel :
        /\ \E k \in 1..Len(sel) : sel[k] = arr[Len(arr)]
        /\ tested = list[arr[Len(arr)]].value))

severalSubjects(list) == Len(indicesByName(list, Str_subject)) >= 2

\* C30: when a message with several Subject headers is accepted on the
\* headers-only branch, the Subject value tested for the nonce is that of
\* the rightmost Subject, an occurrence selectSignedHeaders put in the
\* signing input.
C30_TestedSubjectIsSigned ==
    (output.pc = "done" /\ output.resp.ok /\ severalSubjects(listOfText(input.text)))
        => testedIsSigned(listOfText(input.text), hOfText(input.text), output.v.subject)

\* a message with two Subject headers was accepted
C30_Witness ==
    /\ output.pc = "done"
    /\ output.resp.ok
    /\ severalSubjects(listOfText(input.text))

====
